---- MODULE Spec2Model ----
(***************************************************************************)
(* Ledger and settlement core of the prediction platform.                  *)
(*                                                                         *)
(* The relational store is modelled by its committed rows.  A transaction  *)
(* takes its row locks (SELECT ... FOR UPDATE) when it starts and applies  *)
(* all its writes when it commits; a statement that reads without a lock   *)
(* (findUnique, findMany) is a step of its own, so that what it read can   *)
(* be stale by the time the caller writes.                                 *)
(*                                                                         *)
(* Time is counted in whole UTC days.  Odds are decimal prices counted in  *)
(* hundredths (OddsDen); the arithmetic the program does on them in        *)
(* JavaScript numbers is done here in binary64, rounding included.         *)
(***************************************************************************)
EXTENDS Integers, Sequences, FiniteSets, TLC

\* ------------------------------------------------------------------ bounds
MaxNow == 1
MaxLedgerCalls == 2
MaxRuns == 2

\* ------------------------------------------------------- program constants
\* The token economy is read from the environment (defaults 5 per day, cap
\* 35, stakes 1..35); the values below are a configuration that keeps the
\* same order: minStake <= dailyAllowance <= maxStake <= maxAllowance.
\* payoutMultiplier is the default 2.0 in hundredths.
OddsDen == 100
dailyAllowance == 15
maxAllowance == 30
minStake == 1
maxStake == 15
payoutMultiplier == 200

\* ------------------------------------------------------------------ domain
NULL == "null"
NoAmount == -1
NaN == -1
CASHOUT_ODDS_MAX_AGE_MS == 300000
OddsAges == {CASHOUT_ODDS_MAX_AGE_MS, CASHOUT_ODDS_MAX_AGE_MS + 1, NaN}
\* Ages of the price in the calls of the whole store: fresh, and too old.
StoreOddsAges == {CASHOUT_ODDS_MAX_AGE_MS, CASHOUT_ODDS_MAX_AGE_MS + 1}
Users == {"u1", "u2"}
Events == {"e1"}
WorkerEvents == {"e1", "e2", "e3"}
eventOutcomes == <<"Home", "Away">>
EventOutcomes == {eventOutcomes[i] : i \in DOMAIN eventOutcomes}
OutcomeInputs == {"Home", " away "}
SettleInputs == {"Home", "Away", "Void"}
PlacePrices == {50, 820}
CurrentPrices == {820}
LedgerUsers == {"u1"}
MaxCashoutReq == 2
MaxWritten == 2
StockLimit == 2
MaxRedemptions == 3
Rewards == {"r1"}
MaxDays == 2
ConsumeAmounts == {-1, 0, 15}
ConsumeRefs == {1}
AllowanceCredits == {15}
StakeAmounts == {1, 15}
CreditAmounts == {0, 1}
DebitAmounts == {-1, 16}
CreditTypes == {"ADMIN_CREDIT", "PURCHASE"}
\* e1 starts on day 1; e2 has started by day 0 and e3 starts on day 2.
startsAt == "e1" :> 1 @@ "e2" :> 0 @@ "e3" :> 2
\* Every event carries the identifiers of the external feed; e2 and e3 are
\* of the same sport.
eventOrder == <<"e1", "e2", "e3">>
externalSportKey ==
  "e1" :> "soccer_epl" @@ "e2" :> "basketball_nba" @@ "e3" :> "basketball_nba"
\* Arguments the two calculations are called with on their own.
PayoutStakes == {0, 1, 3, 10, 15, 25}
PayoutOdds == {50, 116, 150, 200, 250, 820}
CashoutStakes == {1, 7, 10, 15}
CashoutPrices == {108, 110, 120, 171, 180, 200, 300, 10000}
\* Outcome arrays, team names and score texts of the results the worker reads.
OutcomeLists == {<<"Arsenal", "Chelsea", "Draw">>, <<"Arsenal", "Chelsea">>,
                 <<"Withdrawn", "Draw">>}
FirstNames == {"Arsenal", " ARSENAL ", "Arsenal FC", "Manchester City"}
SecondNames == {"Chelsea", "Chel"}
ScoreTexts == {"0", "1", "2", "10", " 2 ", "N/A", ""}

VARIABLES
  now,               \* current UTC day
  tokenBalance,      \* User.tokenBalance
  pointsBalance,     \* User.pointsBalance
  tokenTransaction,  \* TokenTransaction rows of each user, in insertion order
  pointsTransaction, \* PointsTransaction rows of each user, in insertion order
  tokenAllowance,    \* TokenAllowance row of each user
  event,             \* Event rows
  prediction,        \* Prediction rows, index = id
  ledgerTx,          \* credit/debit transactions holding a User row lock
  cancelTx,          \* cancel transactions holding an Event row lock
  lockRead,          \* lock() calls that have read the event and not yet written
  cashoutReq,        \* cashout() calls that have computed their value
  ledgerCalls,       \* number of direct credit/debit calls issued so far
  settled,           \* per event: number of settle calls that succeeded
  result,            \* outcome of the last call that returned
  calc,              \* last call of a pure calculation: name, arguments, value
  isRunning,         \* the settlement worker's single-flight flag
  workerRuns,        \* the worker runs in progress: events read, counters, log
  statusStore,       \* the status snapshot the worker publishes
  runs,              \* number of runOnce calls issued so far
  runResult,         \* what the last runOnce that returned has returned
  repairRead,        \* repairBalance() calls that have summed the ledger
  reward,            \* Reward rows
  redemption,        \* Redemption rows, index = id
  redeemTx,          \* redeem transactions holding a Reward row lock
  redemptionRead     \* fulfil/cancel calls that have read their redemption

\* What belongs to the settlement worker and to the calculations.
workerVars == <<isRunning, workerRuns, statusStore, runs, runResult>>

\* What belongs to the rewards shop.
rewardVars == <<reward, redemption, redeemTx, redemptionRead>>

vars == <<now, tokenBalance, pointsBalance, tokenTransaction, pointsTransaction,
          tokenAllowance, event, prediction, ledgerTx, cancelTx, lockRead,
          cashoutReq, ledgerCalls, settled, result, calc, isRunning,
          workerRuns, statusStore, runs, runResult, repairRead, reward,
          redemption, redeemTx, redemptionRead>>

\* --------------------------------------------------------------- utilities
Abs(x) == IF x < 0 THEN -x ELSE x
Min(a, b) == IF a < b THEN a ELSE b
Max(a, b) == IF a > b THEN a ELSE b

RECURSIVE SumAmounts(_)
SumAmounts(rows) ==
  IF rows = <<>> THEN 0 ELSE Head(rows).amount + SumAmounts(Tail(rows))

\* The committed rows, as one value that a transaction transforms.
DB == [tokenBalance |-> tokenBalance, pointsBalance |-> pointsBalance,
       tokenTransaction |-> tokenTransaction,
       pointsTransaction |-> pointsTransaction,
       tokenAllowance |-> tokenAllowance, event |-> event,
       prediction |-> prediction]

\* A transaction's outcome: on failure db is the database it started from.
Ok(db, newBalance) ==
  [ok |-> TRUE, code |-> "OK", required |-> 0, available |-> 0,
   newBalance |-> newBalance, db |-> db]
Fail(db, code) ==
  [ok |-> FALSE, code |-> code, required |-> 0, available |-> 0,
   newBalance |-> 0, db |-> db]
FailBalance(db, required, available) ==
  [ok |-> FALSE, code |-> "INSUFFICIENT_BALANCE", required |-> required,
   available |-> available, newBalance |-> 0, db |-> db]

\* What a call returned: its error code with the balances an
\* InsufficientBalance error carries, next to the amount and the transaction
\* type the caller had asked for.
Returned(op, amount, type, r) ==
  [op |-> op, amount |-> amount, type |-> type, code |-> r.code,
   required |-> r.required, available |-> r.available]

\* What cashout returned, with the prediction and the caller it was for;
\* committed tells that the call had come to its transaction.
ReturnedCashout(predictionId, userId, committed, r) ==
  [op |-> "cashout", amount |-> 0, type |-> "", code |-> r.code,
   required |-> r.required, available |-> r.available,
   predictionId |-> predictionId, userId |-> userId, committed |-> committed]

\* What a call of the allowance service returned, with the user and the UTC
\* day it was made for.
ReturnedAllowance(op, userId, amount, today, r) ==
  [op |-> op, amount |-> amount, type |-> "", code |-> r.code,
   required |-> r.required, available |-> r.available, userId |-> userId,
   day |-> today]

\* What cancel returned: { refunded } next to its error code.
ReturnedRefunded(r) ==
  [op |-> "cancel", amount |-> 0, type |-> "", code |-> r.code,
   required |-> r.required, available |-> r.available, refunded |-> r.winners]

\* ------------------------------------------------------ binary64 arithmetic
\* A JavaScript number is kept as a pair [m, e] standing for m * 2^e, with m
\* a natural number written in limbs of 15 bits, least significant first
\* (TLC integers have 32 bits).  Every operation computes the exact result
\* and rounds it to 53 significant bits, ties to even, as IEEE 754 does.
Limb == 32768
LimbBits == 15
Significand == 53

RECURSIVE Pow2(_)
Pow2(n) == IF n = 0 THEN 1 ELSE 2 * Pow2(n - 1)

RECURSIVE Trim(_)
Trim(a) ==
  IF a = <<>> THEN a
  ELSE IF a[Len(a)] = 0 THEN Trim(SubSeq(a, 1, Len(a) - 1))
  ELSE a

RECURSIVE BigOf(_)
BigOf(n) == IF n = 0 THEN <<>> ELSE <<n % Limb>> \o BigOf(n \div Limb)

RECURSIVE BigToInt(_)
BigToInt(a) == IF a = <<>> THEN 0 ELSE Head(a) + Limb * BigToInt(Tail(a))

RECURSIVE CmpFrom(_, _, _)
CmpFrom(a, b, i) ==
  IF i = 0 THEN 0
  ELSE IF a[i] > b[i] THEN 1
  ELSE IF a[i] < b[i] THEN -1
  ELSE CmpFrom(a, b, i - 1)

BigCmp(a, b) ==
  IF Len(a) > Len(b) THEN 1
  ELSE IF Len(a) < Len(b) THEN -1
  ELSE CmpFrom(a, b, Len(a))

RECURSIVE AddFrom(_, _, _)
AddFrom(a, b, carry) ==
  IF a = <<>> /\ b = <<>> THEN (IF carry = 0 THEN <<>> ELSE <<carry>>)
  ELSE LET x == IF a = <<>> THEN 0 ELSE Head(a)
           y == IF b = <<>> THEN 0 ELSE Head(b)
           s == x + y + carry
       IN <<s % Limb>> \o AddFrom(IF a = <<>> THEN a ELSE Tail(a),
                                  IF b = <<>> THEN b ELSE Tail(b),
                                  s \div Limb)

BigAdd(a, b) == AddFrom(a, b, 0)

\* a - b for a >= b
RECURSIVE SubFrom(_, _, _)
SubFrom(a, b, borrow) ==
  IF a = <<>> THEN <<>>
  ELSE LET y == IF b = <<>> THEN 0 ELSE Head(b)
           d == Head(a) - y - borrow
       IN <<IF d < 0 THEN d + Limb ELSE d>>
            \o SubFrom(Tail(a), IF b = <<>> THEN b ELSE Tail(b),
                       IF d < 0 THEN 1 ELSE 0)

BigSub(a, b) == Trim(SubFrom(a, b, 0))

\* a * k for 0 <= k <= Limb
RECURSIVE MulFrom(_, _, _)
MulFrom(a, k, carry) ==
  IF a = <<>> THEN (IF carry = 0 THEN <<>> ELSE <<carry>>)
  ELSE LET p == Head(a) * k + carry
       IN <<p % Limb>> \o MulFrom(Tail(a), k, p \div Limb)

BigMulSmall(a, k) == Trim(MulFrom(a, k, 0))

RECURSIVE BigMul(_, _)
BigMul(a, b) ==
  IF a = <<>> \/ b = <<>> THEN <<>>
  ELSE BigAdd(BigMulSmall(a, Head(b)),
              LET rest == BigMul(a, Tail(b))
              IN IF rest = <<>> THEN rest ELSE <<0>> \o rest)

RECURSIVE Bits(_)
Bits(n) == IF n = 0 THEN 0 ELSE 1 + Bits(n \div 2)

BitLen(a) ==
  IF a = <<>> THEN 0 ELSE (Len(a) - 1) * LimbBits + Bits(a[Len(a)])

RECURSIVE Shl(_, _)
Shl(a, n) ==
  IF a = <<>> \/ n = 0 THEN a
  ELSE IF n >= LimbBits THEN <<0>> \o Shl(a, n - LimbBits)
  ELSE BigMulSmall(a, Pow2(n))

\* a \div 2^n for 0 < n < LimbBits
RECURSIVE ShrFrom(_, _)
ShrFrom(a, n) ==
  IF a = <<>> THEN a
  ELSE <<(Head(a) \div Pow2(n))
           + (IF Len(a) > 1 THEN (a[2] % Pow2(n)) * Pow2(LimbBits - n)
              ELSE 0)>> \o ShrFrom(Tail(a), n)

RECURSIVE Shr(_, _)
Shr(a, n) ==
  IF a = <<>> \/ n = 0 THEN a
  ELSE IF n >= LimbBits THEN Shr(Tail(a), n - LimbBits)
  ELSE Trim(ShrFrom(a, n))

\* Quotient and remainder of a by b # 0, one bit of the quotient at a time
\* (i is the bit, q the quotient so far).
RECURSIVE DivFrom(_, _, _, _)
DivFrom(a, b, i, q) ==
  IF i < 0 \/ Len(q) < 0   \* reading q has it computed at every step
    THEN [q |-> q, r |-> a]
  ELSE LET d == Shl(b, i)
       IN IF BigCmp(a, d) >= 0
            THEN DivFrom(BigSub(a, d), b, i - 1, BigAdd(q, Shl(<<1>>, i)))
            ELSE DivFrom(a, b, i - 1, q)

BigDivMod(a, b) == DivFrom(a, b, BitLen(a) - BitLen(b), <<>>)

\* The nearest number with 53 significant bits to m * 2^e, ties to even.
RoundToDouble(m, e) ==
  LET k == BitLen(m) - Significand
      q == Shr(m, k)
      rest == BigSub(m, Shl(q, k))
      half == BigCmp(rest, Shl(<<1>>, k - 1))
      up == half > 0 \/ (half = 0 /\ q[1] % 2 = 1)
  IN IF k <= 0 THEN [m |-> m, e |-> e]
     ELSE [m |-> IF up THEN BigAdd(q, <<1>>) ELSE q, e |-> e + k]

NumberOf(n) == [m |-> BigOf(n), e |-> 0]

\* x * y
NumberMul(x, y) == RoundToDouble(BigMul(x.m, y.m), x.e + y.e)

\* x / y for y # 0: the quotient to 55 bits and more, with one more bit that
\* tells whether anything was left, rounded.
NumberDiv(x, y) ==
  LET s == Max(0, BitLen(y.m) + Significand + 2 - BitLen(x.m))
      d == BigDivMod(Shl(x.m, s), y.m)
      sticky == IF d.r = <<>> THEN <<>> ELSE <<1>>
  IN IF x.m = <<>> THEN x
     ELSE RoundToDouble(BigAdd(BigMulSmall(d.q, 2), sticky), x.e - y.e - s - 1)

\* Math.floor(x) for x >= 0, as an integer
NumberFloor(x) ==
  IF x.e >= 0 THEN BigToInt(Shl(x.m, x.e)) ELSE BigToInt(Shr(x.m, -x.e))

\* The number a decimal n / den converts to (Decimal.toNumber, a literal).
DecimalToNumber(n, den) == NumberDiv(NumberOf(n), NumberOf(den))

\* The numbers of the prices in use, computed once.
OddsValues ==
  PlacePrices \cup CurrentPrices \cup {payoutMultiplier} \cup PayoutOdds
    \cup CashoutPrices

toNumber == [odds \in OddsValues |-> DecimalToNumber(odds, OddsDen)]

\* ------------------------------------------------------------ ledger engine
Entry(userId, amount, type, referenceId) ==
  [userId |-> userId, amount |-> amount, type |-> type,
   referenceId |-> referenceId]

getUserBalanceForUpdate(db, cur, userId) ==
  IF cur = "token" THEN db.tokenBalance[userId] ELSE db.pointsBalance[userId]

createTransaction(db, cur, entry, newBalance) ==
  LET row == [userId |-> entry.userId, amount |-> entry.amount,
              balanceAfter |-> newBalance, type |-> entry.type,
              referenceId |-> entry.referenceId]
  IN IF cur = "token"
       THEN [db EXCEPT !.tokenTransaction[entry.userId] = Append(@, row)]
       ELSE [db EXCEPT !.pointsTransaction[entry.userId] = Append(@, row)]

updateUserBalance(db, cur, userId, newBalance) ==
  IF cur = "token"
    THEN [db EXCEPT !.tokenBalance[userId] = newBalance]
    ELSE [db EXCEPT !.pointsBalance[userId] = newBalance]

\* executeAtomicChange without its check of the new balance.
executeAtomicChangeUnchecked(db, cur, entry, currentBalance) ==
  Ok(updateUserBalance(createTransaction(db, cur, entry,
                                         currentBalance + entry.amount),
                       cur, entry.userId, currentBalance + entry.amount),
     currentBalance + entry.amount)

\* currentBalance is what getUserBalanceForUpdate returned to this transaction.
executeAtomicChange(db, cur, entry, currentBalance) ==
  LET newBalance == currentBalance + entry.amount
  IN IF newBalance < 0
       THEN FailBalance(db, Abs(entry.amount), currentBalance)
       ELSE Ok(updateUserBalance(createTransaction(db, cur, entry, newBalance),
                                 cur, entry.userId, newBalance),
               newBalance)

\* The checks of credit, a zero amount let through.
creditRejectsNegative(entry) ==
  IF entry.amount < 0 THEN "BAD_REQUEST"
  ELSE IF entry.type = "PURCHASE" THEN "FORBIDDEN"
  ELSE "OK"

creditRejects(entry) ==
  IF entry.amount <= 0 THEN "BAD_REQUEST"
  ELSE IF entry.type = "PURCHASE" THEN "FORBIDDEN"
  ELSE "OK"

debitEntry(entry) ==
  [entry EXCEPT !.amount = IF entry.amount > 0 THEN -entry.amount
                           ELSE entry.amount]

\* credit(entry, tx) and debit(entry, tx): inside a caller's transaction.
credit(db, cur, entry) ==
  IF creditRejects(entry) # "OK" THEN Fail(db, creditRejects(entry))
  ELSE executeAtomicChange(db, cur, entry,
                           getUserBalanceForUpdate(db, cur, entry.userId))

debit(db, cur, entry) ==
  executeAtomicChange(db, cur, debitEntry(entry),
                      getUserBalanceForUpdate(db, cur, entry.userId))

\* ------------------------------------------------------------------- locks
\* SELECT ... FROM "User" ... FOR UPDATE waits while another transaction
\* holds the row.
\* A plain SELECT of the balance: nothing to wait for.
UserRowUnlocked(u) == TRUE

UserRowFree(u) == \A t \in ledgerTx : t.entry.userId # u

\* A read of the Event row that waits for no lock.
EventRowUnlocked(e) == TRUE

EventRowFree(e) == \A t \in cancelTx : t.eventId # e

Commit(db) ==
  /\ tokenBalance' = db.tokenBalance
  /\ pointsBalance' = db.pointsBalance
  /\ tokenTransaction' = db.tokenTransaction
  /\ pointsTransaction' = db.pointsTransaction
  /\ tokenAllowance' = db.tokenAllowance
  /\ event' = db.event
  /\ prediction' = db.prediction

dbVars == <<tokenBalance, pointsBalance, tokenTransaction, pointsTransaction,
            tokenAllowance, event, prediction>>

\* ------------------------------------------------- credit / debit, own tx
\* credit(entry) without a caller's transaction: validation, then
\* prisma.$transaction opens and takes the User row lock.
Credit(u, cur, amount, type) ==
  LET entry == Entry(u, amount, type, 0)
  IN /\ ledgerCalls < MaxLedgerCalls
     /\ ledgerCalls' = ledgerCalls + 1
     /\ IF creditRejects(entry) # "OK"
          THEN /\ result' = Returned("credit", amount, type, Fail(DB, creditRejects(entry)))
               /\ UNCHANGED ledgerTx
          ELSE /\ UserRowFree(u)
               /\ ledgerTx' = ledgerTx \cup
                    {[op |-> "credit", cur |-> cur, amount |-> amount, entry |-> entry,
                      currentBalance |-> getUserBalanceForUpdate(DB, cur, u)]}
               /\ UNCHANGED result
     /\ UNCHANGED <<calc, repairRead, rewardVars, workerVars, now, dbVars, cancelTx, lockRead, cashoutReq, settled>>

Debit(u, cur, amount) ==
  LET entry == debitEntry(Entry(u, amount, "ADMIN_DEBIT", 0))
  IN /\ ledgerCalls < MaxLedgerCalls
     /\ ledgerCalls' = ledgerCalls + 1
     /\ UserRowFree(u)
     /\ ledgerTx' = ledgerTx \cup
          {[op |-> "debit", cur |-> cur, amount |-> amount, entry |-> entry,
            currentBalance |-> getUserBalanceForUpdate(DB, cur, u)]}
     /\ UNCHANGED <<calc, repairRead, rewardVars, workerVars, now, dbVars, cancelTx, lockRead, cashoutReq, settled,
                    result>>

\* The rest of executeAtomicChange and the commit, which releases the lock.
LedgerCommit(t) ==
  LET r == executeAtomicChange(DB, t.cur, t.entry, t.currentBalance)
  IN /\ ledgerTx' = ledgerTx \ {t}
     /\ Commit(r.db)
     /\ result' = Returned(t.op, t.amount, t.entry.type, r)
     /\ UNCHANGED <<calc, repairRead, rewardVars, workerVars, now, cancelTx, lockRead, cashoutReq, ledgerCalls, settled>>

\* ------------------------------------------------------------ repairBalance
\* repairBalance: tokenTransaction.aggregate sums the user's committed
\* entries, outside any transaction and without a lock ...
RepairRead(u) ==
  /\ repairRead' = repairRead \cup
       {[userId |-> u, calculatedBalance |-> SumAmounts(tokenTransaction[u])]}
  /\ UNCHANGED <<calc, rewardVars, workerVars, now, dbVars, ledgerTx, cancelTx,
                 lockRead, cashoutReq, ledgerCalls, settled, result>>

\* ... and user.update then writes that sum, once the User row is free.
RepairWrite(t) ==
  /\ UserRowFree(t.userId)
  /\ repairRead' = repairRead \ {t}
  /\ tokenBalance' = [tokenBalance EXCEPT ![t.userId] = t.calculatedBalance]
  /\ result' = Returned("repairBalance", t.calculatedBalance, "", Ok(DB, 0))
  /\ UNCHANGED <<calc, rewardVars, workerVars, now, pointsBalance,
                 tokenTransaction, pointsTransaction, tokenAllowance, event,
                 prediction, ledgerTx, cancelTx, lockRead, cashoutReq,
                 ledgerCalls, settled>>

\* --------------------------------------------------------- token allowance
daysBetween(start, end) == end - start

\* A top-up without the cap of maxAllowance.
allowanceTopUpUncapped(tokensRemaining, daysSinceReset) ==
  daysSinceReset * dailyAllowance

calculateAllowanceTopUp(tokensRemaining, daysSinceReset) ==
  Min(daysSinceReset * dailyAllowance, Max(0, maxAllowance - tokensRemaining))

upsertAllowance(db, userId, data) ==
  [db EXCEPT !.tokenAllowance[userId] = data]

Allowance(tokensRemaining, lastResetDate) ==
  [tokensRemaining |-> tokensRemaining, lastResetDate |-> lastResetDate]

\* What the lookup of a user's allowance row yields when there is none.
NoAllowance == Allowance(NoAmount, NoAmount)

\* The value of r extended with the allowance status ensureAllowance returns.
WithStatus(r, status) ==
  [ok |-> r.ok, code |-> r.code, required |-> r.required,
   available |-> r.available, newBalance |-> r.newBalance, db |-> r.db,
   status |-> status]

ensureAllowance(db, userId, today) ==
  LET allowance == db.tokenAllowance[userId]
      grant == Entry(userId, dailyAllowance, "DAILY_ALLOWANCE", 0)
  IN IF allowance = NoAllowance
       THEN LET c == credit(db, "token", grant)
            IN IF ~c.ok THEN WithStatus(c, NoAllowance)
               ELSE WithStatus(
                      Ok(upsertAllowance(c.db, userId,
                                         Allowance(c.newBalance, today)),
                         c.newBalance),
                      Allowance(c.newBalance, today))
       ELSE LET daysSinceReset == daysBetween(allowance.lastResetDate, today)
                tokensToAdd == calculateAllowanceTopUp(allowance.tokensRemaining,
                                                       daysSinceReset)
                c == credit(db, "token",
                            Entry(userId, tokensToAdd, "DAILY_ALLOWANCE", 0))
            IN IF daysSinceReset > 0 /\ tokensToAdd > 0
                 THEN IF ~c.ok THEN WithStatus(c, NoAllowance)
                      ELSE WithStatus(
                             Ok(upsertAllowance(c.db, userId,
                                                Allowance(c.newBalance, today)),
                                c.newBalance),
                             Allowance(c.newBalance, today))
               ELSE IF daysSinceReset > 0
                 THEN WithStatus(
                        Ok(upsertAllowance(db, userId,
                             Allowance(allowance.tokensRemaining, today)), 0),
                        Allowance(allowance.tokensRemaining,
                                  allowance.lastResetDate))
               ELSE WithStatus(Ok(db, 0),
                               Allowance(allowance.tokensRemaining,
                                         allowance.lastResetDate))

\* consumeTokens that sets the allowance counter to the ledger balance.
consumeTokensByBalance(db, userId, amount, referenceId, today) ==
  IF amount <= 0 THEN Fail(db, "BAD_REQUEST")
  ELSE LET status == ensureAllowance(db, userId, today)
           d == debit(status.db, "token",
                      Entry(userId, amount, "PREDICTION_STAKE", referenceId))
       IN IF ~status.ok THEN Fail(db, status.code)
          ELSE IF ~d.ok THEN FailBalance(db, d.required, d.available)
          ELSE Ok(upsertAllowance(d.db, userId,
                    Allowance(d.newBalance, status.status.lastResetDate)),
                  d.newBalance)

consumeTokens(db, userId, amount, referenceId, today) ==
  IF amount <= 0 THEN Fail(db, "BAD_REQUEST")
  ELSE LET status == ensureAllowance(db, userId, today)
           d == debit(status.db, "token",
                      Entry(userId, amount, "PREDICTION_STAKE", referenceId))
       IN IF ~status.ok THEN Fail(db, status.code)
          ELSE IF ~d.ok THEN FailBalance(db, d.required, d.available)
          ELSE Ok(upsertAllowance(d.db, userId,
                    Allowance(Max(0, status.status.tokensRemaining - amount),
                              status.status.lastResetDate)),
                  d.newBalance)

\* getStatus(userId) in a transaction of its own.
GetStatus(u) ==
  LET r == ensureAllowance(DB, u, now)
  IN /\ UserRowFree(u)
     /\ Commit(r.db)
     /\ result' = ReturnedAllowance("getStatus", u, 0, now, r)
     /\ UNCHANGED <<calc, repairRead, rewardVars, workerVars, now, ledgerTx, cancelTx, lockRead,
                    cashoutReq, ledgerCalls, settled>>

\* consumeTokens(userId, amount, referenceId) in a transaction of its own.
ConsumeTokens(u, amount, referenceId) ==
  /\ UserRowFree(u)
  /\ \E r \in {consumeTokens(DB, u, amount, referenceId, now)} :
       /\ Commit(r.db)
       /\ result' = ReturnedAllowance("consumeTokens", u, amount, now, r)
  /\ UNCHANGED <<calc, repairRead, rewardVars, workerVars, now, ledgerTx, cancelTx, lockRead,
                 cashoutReq, ledgerCalls, settled>>

\* Midnight UTC passes.
NextDay ==
  /\ now < MaxDays
  /\ now' = now + 1
  /\ UNCHANGED <<calc, repairRead, rewardVars, workerVars, dbVars, ledgerTx, cancelTx, lockRead,
                 cashoutReq, ledgerCalls, settled, result>>

\* ------------------------------------------------------------------ outcomes
\* The strings in use, each with the characters it is made of.
characters ==
  "Home" :> <<"H", "o", "m", "e">>
  @@ "Away" :> <<"A", "w", "a", "y">>
  @@ " away " :> <<" ", "a", "w", "a", "y", " ">>
  @@ "Void" :> <<"V", "o", "i", "d">>
  @@ "Arsenal" :> <<"A", "r", "s", "e", "n", "a", "l">>
  @@ "Chelsea" :> <<"C", "h", "e", "l", "s", "e", "a">>
  @@ "Draw" :> <<"D", "r", "a", "w">>
  @@ "draw" :> <<"d", "r", "a", "w">>
  @@ "Withdrawn" :> <<"W", "i", "t", "h", "d", "r", "a", "w", "n">>
  @@ " ARSENAL " :> <<" ", "A", "R", "S", "E", "N", "A", "L", " ">>
  @@ "Arsenal FC" :> <<"A", "r", "s", "e", "n", "a", "l", " ", "F", "C">>
  @@ "Chel" :> <<"C", "h", "e", "l">>
  @@ "Manchester City" :> <<"M", "a", "n", "c", "h", "e", "s", "t", "e", "r",
                            " ", "C", "i", "t", "y">>
  @@ "0" :> <<"0">>
  @@ "1" :> <<"1">>
  @@ "2" :> <<"2">>
  @@ "10" :> <<"1", "0">>
  @@ " 2 " :> <<" ", "2", " ">>
  @@ "N/A" :> <<"N", "/", "A">>
  @@ "" :> <<>>
  @@ " " :> <<" ">>

WhiteSpace == {" "}

upperCase == <<"A", "C", "D", "E", "F", "H", "L", "M", "N", "R", "S", "V", "W">>
lowerCase == <<"a", "c", "d", "e", "f", "h", "l", "m", "n", "r", "s", "v", "w">>

\* String.prototype.toLowerCase, one character.
toLowerCase(c) ==
  IF \E k \in DOMAIN upperCase : upperCase[k] = c
    THEN lowerCase[CHOOSE k \in DOMAIN upperCase : upperCase[k] = c]
    ELSE c

\* String.prototype.trim.
RECURSIVE trimStart(_)
trimStart(cs) ==
  IF cs # <<>> /\ Head(cs) \in WhiteSpace THEN trimStart(Tail(cs)) ELSE cs

RECURSIVE trimEnd(_)
trimEnd(cs) ==
  IF cs # <<>> /\ cs[Len(cs)] \in WhiteSpace
    THEN trimEnd(SubSeq(cs, 1, Len(cs) - 1))
    ELSE cs

trim(cs) == trimEnd(trimStart(cs))

\* replace(/\s+/g, ' '): every run of white space becomes one space.
RECURSIVE collapseWhiteSpace(_)
collapseWhiteSpace(cs) ==
  IF cs = <<>> THEN <<>>
  ELSE IF Head(cs) \in WhiteSpace
    THEN <<" ">> \o collapseWhiteSpace(trimStart(cs))
    ELSE <<Head(cs)>> \o collapseWhiteSpace(Tail(cs))

\* The normal form of each string in use, as characters, computed once.
normalized ==
  [value \in DOMAIN characters |->
     LET trimmed == trim(characters[value])
         lowered == [k \in DOMAIN trimmed |-> toLowerCase(trimmed[k])]
     IN collapseWhiteSpace(lowered)]

normalizeOutcome(value) == normalized[value]

\* String.prototype.includes on characters.
includes(cs, part) ==
  \E k \in 0 .. Len(cs) - Len(part) : SubSeq(cs, k + 1, k + Len(part)) = part

\* The first element of an array that satisfies a test, NULL when none does.
firstMatch(outcomes, Test(_)) ==
  LET found == {k \in DOMAIN outcomes : Test(outcomes[k])}
  IN IF found = {} THEN NULL
     ELSE outcomes[CHOOSE k \in found : \A j \in found : k <= j]

matchOutcomeExact(outcomes, target) ==
  LET normalizedTarget == normalizeOutcome(target)
      Same(outcome) == normalizeOutcome(outcome) = normalizedTarget
  IN firstMatch(outcomes, Same)

matchOutcomeByName(outcomes, name) ==
  LET normalizedName == normalizeOutcome(name)
      Same(outcome) == normalizeOutcome(outcome) = normalizedName
      Within(outcome) ==
        \/ includes(normalizeOutcome(outcome), normalizedName)
        \/ includes(normalizedName, normalizeOutcome(outcome))
      exact == firstMatch(outcomes, Same)
  IN IF exact # NULL THEN exact ELSE firstMatch(outcomes, Within)

\* --------------------------------------------------------------- predictions
PredictionIds(db) == 1 .. Len(db.prediction)

findPrediction(db, userId, eventId) ==
  {i \in PredictionIds(db) : /\ db.prediction[i].userId = userId
                             /\ db.prediction[i].eventId = eventId}

\* A lookup that finds nothing.
noPrediction(db, userId, eventId) == {}

\* tx.prediction.findUnique({ userId_eventId }) in the transaction of place.
existingPredictionOf(db, userId, eventId) == findPrediction(db, userId, eventId)

\* tx.prediction.create under the unique index on (userId, eventId).
createPrediction(db, row) ==
  IF findPrediction(db, row.userId, row.eventId) # {}
    THEN Fail(db, "UNIQUE_CONSTRAINT")
    ELSE Ok([db EXCEPT !.prediction = Append(@, row)], 0)

\* The event as place had pre-fetched it, when it was OPEN.
prefetchedEvent(db, eventId) == [db.event[eventId] EXCEPT !.status = "OPEN"]

\* SELECT ... FROM "Event" ... FOR UPDATE in the transaction of place.
lockEventForPrediction(db, eventId) == db.event[eventId]

\* place that keeps what it wrote before the debit failed.
placeWithoutRollback(db, userId, eventId, predictedOutcome, stakeAmount, price, today) ==
  LET canonicalOutcome == matchOutcomeExact(eventOutcomes, predictedOutcome)
      lockedEvent == lockEventForPrediction(db, eventId)
      existingPrediction == existingPredictionOf(db, userId, eventId)
      newId == Len(db.prediction) + 1
      created == createPrediction(db,
                   [userId |-> userId, eventId |-> eventId,
                    predictedOutcome |-> canonicalOutcome,
                    stakeAmount |-> stakeAmount, originalOdds |-> price,
                    status |-> "PENDING", payout |-> NoAmount,
                    cashoutAmount |-> NoAmount, cashedOutAt |-> NoAmount])
      consumed == consumeTokens(created.db, userId, stakeAmount, newId, today)
  IN IF stakeAmount < minStake \/ stakeAmount > maxStake
       THEN Fail(db, "BAD_REQUEST")
     ELSE IF canonicalOutcome = NULL THEN Fail(db, "INVALID_OUTCOME")
     ELSE IF lockedEvent.status # "OPEN" THEN Fail(db, "EVENT_NOT_OPEN")
     ELSE IF startsAt[eventId] <= today THEN Fail(db, "EVENT_ALREADY_STARTED")
     ELSE IF existingPrediction # {} THEN Fail(db, "ALREADY_PREDICTED")
     ELSE IF ~created.ok THEN created
     ELSE consumed

place(db, userId, eventId, predictedOutcome, stakeAmount, price, today) ==
  LET canonicalOutcome == matchOutcomeExact(eventOutcomes, predictedOutcome)
      lockedEvent == lockEventForPrediction(db, eventId)
      existingPrediction == existingPredictionOf(db, userId, eventId)
      newId == Len(db.prediction) + 1
      created == createPrediction(db,
                   [userId |-> userId, eventId |-> eventId,
                    predictedOutcome |-> canonicalOutcome,
                    stakeAmount |-> stakeAmount, originalOdds |-> price,
                    status |-> "PENDING", payout |-> NoAmount,
                    cashoutAmount |-> NoAmount, cashedOutAt |-> NoAmount])
      consumed == consumeTokens(created.db, userId, stakeAmount, newId, today)
  IN IF stakeAmount < minStake \/ stakeAmount > maxStake
       THEN Fail(db, "BAD_REQUEST")
     ELSE IF canonicalOutcome = NULL THEN Fail(db, "INVALID_OUTCOME")
     ELSE IF lockedEvent.status # "OPEN" THEN Fail(db, "EVENT_NOT_OPEN")
     ELSE IF startsAt[eventId] <= today THEN Fail(db, "EVENT_ALREADY_STARTED")
     ELSE IF existingPrediction # {} THEN Fail(db, "ALREADY_PREDICTED")
     ELSE IF ~created.ok THEN created
     ELSE IF ~consumed.ok
       THEN FailBalance(db, consumed.required, consumed.available)
     ELSE consumed

Place(u, e, o, stake, price) ==
  LET r == place(DB, u, e, o, stake, price, now)
  IN /\ EventRowFree(e)
     /\ UserRowFree(u)
     /\ Commit(r.db)
     /\ result' = Returned("place", 0, "", r)
     /\ UNCHANGED <<calc, repairRead, rewardVars, workerVars, now, ledgerTx, cancelTx, lockRead,
                    cashoutReq, ledgerCalls, settled>>

\* The margin literals 0.9 and 0.95.
margin ==
  [eventStarted \in BOOLEAN |->
     IF eventStarted THEN DecimalToNumber(9, 10) ELSE DecimalToNumber(95, 100)]

\* originalOdds / currentOdds for the prices in use, computed once.
oddsRatio ==
  [originalOdds \in OddsValues, currentOdds \in OddsValues |->
     NumberDiv(toNumber[originalOdds], toNumber[currentOdds])]

\* Math.floor(stake * (originalOdds / currentOdds) * margin) for the
\* arguments in use, computed once.
cashoutFloor ==
  [originalStakeTokens \in StakeAmounts \cup CashoutStakes,
   originalOdds \in OddsValues, currentOdds \in OddsValues,
   eventStarted \in BOOLEAN |->
     NumberFloor(NumberMul(NumberMul(NumberOf(originalStakeTokens),
                                     oddsRatio[originalOdds, currentOdds]),
                           margin[eventStarted]))]

calculateCashoutValue(originalStakeTokens, originalOdds, currentOdds, eventStarted) ==
  LET cashoutValue ==
        cashoutFloor[originalStakeTokens, originalOdds, currentOdds, eventStarted]
  IN Max(0, cashoutValue)

\* The staleness check without the test for a valid time.
oddsAgeAboveMax(oddsAgeMs) == oddsAgeMs > CASHOUT_ODDS_MAX_AGE_MS

\* !Number.isFinite(oddsAgeMs) || oddsAgeMs > CASHOUT_ODDS_MAX_AGE_MS, with
\* oddsAgeMs = Date.now() - new Date(odds.updatedAt).getTime(), which is NaN
\* when updatedAt is not a valid time.
oddsTooStale(oddsAgeMs) ==
  oddsAgeMs = NaN \/ oddsAgeMs > CASHOUT_ODDS_MAX_AGE_MS

\* getCashoutValue: reads the prediction and its event without a lock.
getCashoutValue(db, predictionId, userId, currentOdds, oddsAgeMs, today) ==
  LET p == db.prediction[predictionId]
  IN IF predictionId \notin PredictionIds(db) THEN Fail(db, "NOT_FOUND")
     ELSE IF p.userId # userId THEN Fail(db, "FORBIDDEN")
     ELSE IF p.status # "PENDING" \/ p.cashedOutAt # NoAmount
       THEN Fail(db, "CASHOUT_UNAVAILABLE")
     ELSE IF db.event[p.eventId].status \in {"SETTLED", "CANCELLED"}
       THEN Fail(db, "CASHOUT_UNAVAILABLE")
     ELSE IF oddsTooStale(oddsAgeMs) THEN Fail(db, "CASHOUT_UNAVAILABLE")
     ELSE IF p.originalOdds = NoAmount \/ p.originalOdds = 0
       THEN Fail(db, "CASHOUT_UNAVAILABLE")
     ELSE Ok(db, calculateCashoutValue(p.stakeAmount, p.originalOdds,
                                       currentOdds,
                                       startsAt[p.eventId] <= today))

\* The transaction of cashout without the check under the row lock.
cashoutUnchecked(db, predictionId, userId, cashoutValue, today) ==
  LET c == credit(db, "points",
                  Entry(userId, cashoutValue, "CASHOUT", predictionId))
  IN IF ~c.ok THEN Fail(db, c.code)
     ELSE Ok([c.db EXCEPT !.prediction[predictionId] =
                [@ EXCEPT !.status = "CASHED_OUT", !.cashedOutAt = today,
                          !.cashoutAmount = cashoutValue,
                          !.payout = cashoutValue]],
             c.newBalance)

\* The transaction of cashout, with the value computed before it.
cashout(db, predictionId, userId, cashoutValue, today) ==
  LET p == db.prediction[predictionId]
      c == credit(db, "points",
                  Entry(userId, cashoutValue, "CASHOUT", predictionId))
  IN IF predictionId \notin PredictionIds(db) \/ p.userId # userId
       THEN Fail(db, "NOT_FOUND")
     ELSE IF p.status # "PENDING" \/ p.cashedOutAt # NoAmount
       THEN Fail(db, "CASHOUT_UNAVAILABLE")
     ELSE IF ~c.ok THEN Fail(db, c.code)
     ELSE Ok([c.db EXCEPT !.prediction[predictionId] =
                [@ EXCEPT !.status = "CASHED_OUT", !.cashedOutAt = today,
                          !.cashoutAmount = cashoutValue,
                          !.payout = cashoutValue]],
             c.newBalance)

CashoutValue(pid, u, currentOdds, oddsAgeMs) ==
  LET v == getCashoutValue(DB, pid, u, currentOdds, oddsAgeMs, now)
  IN /\ pid \in PredictionIds(DB)
     /\ Cardinality(cashoutReq) < MaxCashoutReq
     /\ IF ~v.ok THEN /\ result' = ReturnedCashout(pid, u, FALSE, v)
                      /\ UNCHANGED cashoutReq
        ELSE IF v.newBalance <= 0
          THEN /\ result' = ReturnedCashout(pid, u, FALSE,
                                            Fail(DB, "CASHOUT_UNAVAILABLE"))
               /\ UNCHANGED cashoutReq
        ELSE /\ cashoutReq' = cashoutReq \cup
                  {[call |-> CHOOSE n \in 1 .. MaxCashoutReq :
                               \A c \in cashoutReq : c.call # n,
                    predictionId |-> pid, userId |-> u,
                    cashoutValue |-> v.newBalance]}
             /\ UNCHANGED result
     /\ UNCHANGED <<calc, repairRead, rewardVars, workerVars, now, dbVars, ledgerTx, cancelTx,
                    lockRead, ledgerCalls, settled>>

CashoutCommit(c) ==
  LET r == cashout(DB, c.predictionId, c.userId, c.cashoutValue, now)
  IN /\ UserRowFree(c.userId)
     /\ cashoutReq' = cashoutReq \ {c}
     /\ Commit(r.db)
     /\ result' = ReturnedCashout(c.predictionId, c.userId, TRUE, r)
     /\ UNCHANGED <<calc, repairRead, rewardVars, workerVars, now, ledgerTx, cancelTx, lockRead,
                    ledgerCalls, settled>>

\* -------------------------------------------------------------------- events
\* Math.floor(stakeAmount * odds) for the stakes and prices in use, computed
\* once.
payoutFloor ==
  [stakeAmount \in StakeAmounts \cup PayoutStakes, odds \in OddsValues |->
     NumberFloor(NumberMul(NumberOf(stakeAmount), toNumber[odds]))]

calculatePayout(stakeAmount, odds) == payoutFloor[stakeAmount, odds]

\* The ids of the PENDING predictions of an event, in the order of the query.
RECURSIVE PendingFrom(_, _, _)
PendingFrom(db, eventId, i) ==
  IF i > Len(db.prediction) THEN <<>>
  ELSE IF /\ db.prediction[i].eventId = eventId
          /\ db.prediction[i].status = "PENDING"
    THEN <<i>> \o PendingFrom(db, eventId, i + 1)
    ELSE PendingFrom(db, eventId, i + 1)

PendingPredictions(db, eventId) == PendingFrom(db, eventId, 1)

Owners(db, ids) == {db.prediction[ids[k]].userId : k \in 1 .. Len(ids)}

Summary(r, winners, losers, totalPayout) ==
  [ok |-> r.ok, code |-> r.code, required |-> r.required,
   available |-> r.available, newBalance |-> r.newBalance, db |-> r.db,
   winners |-> winners, losers |-> losers, totalPayout |-> totalPayout]

\* A transaction that ends without a commit keeps what it wrote.
keepWritten(before, written) == written

\* prisma.$transaction: a throw of the callback, or the timeout, rolls back
\* everything the transaction wrote.
rollback(before, written) == before

\* The loop of settle over the predictions it locked; acc is the state of
\* the transaction so far, a failed credit ends it.
RECURSIVE settlePredictions(_, _, _)
settlePredictions(acc, ids, finalOutcome) ==
  IF ids = <<>> \/ ~acc.ok THEN acc
  ELSE LET id == Head(ids)
           p == acc.db.prediction[id]
           isWinner == p.predictedOutcome = finalOutcome
           odds == IF p.originalOdds # NoAmount THEN p.originalOdds
                   ELSE payoutMultiplier
           payout == calculatePayout(p.stakeAmount, odds)
           c == credit(acc.db, "points",
                       Entry(p.userId, payout, "PREDICTION_WIN", id))
       IN IF p.status # "PENDING"
            THEN settlePredictions(acc, Tail(ids), finalOutcome)
          ELSE IF isWinner
            THEN IF ~c.ok THEN Summary(c, 0, 0, 0)
                 ELSE settlePredictions(
                        Summary(Ok([c.db EXCEPT !.prediction[id] =
                                      [@ EXCEPT !.status = "WON",
                                                !.payout = payout]], 0),
                                acc.winners + 1, acc.losers,
                                acc.totalPayout + payout),
                        Tail(ids), finalOutcome)
          ELSE settlePredictions(
                 Summary(Ok([acc.db EXCEPT !.prediction[id] =
                               [@ EXCEPT !.status = "LOST", !.payout = 0]], 0),
                         acc.winners, acc.losers + 1, acc.totalPayout),
                 Tail(ids), finalOutcome)

\* settle that takes every prediction of the event for a PENDING one.
settleEvery(db, eventId, finalOutcome) ==
  LET every == [db EXCEPT !.prediction =
                  [i \in DOMAIN @ |->
                     IF @[i].eventId = eventId
                       THEN [@[i] EXCEPT !.status = "PENDING"] ELSE @[i]]]
      lockedEvent == db.event[eventId]
      done == settlePredictions(Summary(Ok(every, 0), 0, 0, 0),
                                PendingPredictions(every, eventId),
                                finalOutcome)
  IN IF lockedEvent.status = "SETTLED" \/ lockedEvent.status = "CANCELLED"
       THEN Summary(Fail(db, "EVENT_ALREADY_SETTLED"), 0, 0, 0)
     ELSE IF finalOutcome \notin EventOutcomes
       THEN Summary(Fail(db, "INVALID_OUTCOME"), 0, 0, 0)
     ELSE IF ~done.ok THEN Summary(Fail(db, done.code), 0, 0, 0)
     ELSE Summary(Ok([done.db EXCEPT !.event[eventId] =
                        [status |-> "SETTLED", finalOutcome |-> finalOutcome]],
                     0),
                  done.winners, done.losers, done.totalPayout)

settle(db, eventId, finalOutcome) ==
  LET lockedEvent == db.event[eventId]
      predictions == PendingPredictions(db, eventId)
      done == settlePredictions(Summary(Ok(db, 0), 0, 0, 0), predictions,
                                finalOutcome)
  IN IF lockedEvent.status = "SETTLED" \/ lockedEvent.status = "CANCELLED"
       THEN Summary(Fail(db, "EVENT_ALREADY_SETTLED"), 0, 0, 0)
     ELSE IF finalOutcome \notin EventOutcomes
       THEN Summary(Fail(db, "INVALID_OUTCOME"), 0, 0, 0)
     ELSE IF ~done.ok THEN Summary(Fail(rollback(db, done.db), done.code), 0, 0, 0)
     ELSE Summary(Ok([done.db EXCEPT !.event[eventId] =
                        [status |-> "SETTLED", finalOutcome |-> finalOutcome]],
                     0),
                  done.winners, done.losers, done.totalPayout)

Settle(e, o) ==
  LET r == settle(DB, e, o)
  IN /\ EventRowFree(e)
     /\ \A u \in Owners(DB, PendingPredictions(DB, e)) : UserRowFree(u)
     /\ Commit(r.db)
     /\ settled' = [settled EXCEPT ![e] = IF r.ok THEN @ + 1 ELSE @]
     /\ result' = Returned("settle", 0, "", r)
     /\ UNCHANGED <<calc, repairRead, rewardVars, workerVars, now, ledgerTx, cancelTx, lockRead, cashoutReq, ledgerCalls>>

\* settle whose transaction reaches its timeout of 30 seconds after it has
\* handled k of the predictions it locked (Prisma error P2028).
SettleTimeout(e, o, k) ==
  /\ EventRowFree(e)
  /\ \A u \in Owners(DB, PendingPredictions(DB, e)) : UserRowFree(u)
  /\ event[e].status \notin {"SETTLED", "CANCELLED"}
  /\ o \in EventOutcomes
  /\ k <= Len(PendingPredictions(DB, e))
  /\ \E done \in {settlePredictions(Summary(Ok(DB, 0), 0, 0, 0),
                                     SubSeq(PendingPredictions(DB, e), 1, k),
                                     o)} :
       /\ Commit(rollback(DB, done.db))
       /\ result' = Returned("settle", 0, "", Fail(DB, "P2028"))
  /\ UNCHANGED <<calc, repairRead, rewardVars, workerVars, now, ledgerTx, cancelTx, lockRead,
                 cashoutReq, ledgerCalls, settled>>

\* A refund that credits nothing.
refundSkipped(db, userId, amount, predictionId) == Ok(db, 0)

refundPrediction(db, userId, amount, predictionId) ==
  credit(db, "token", Entry(userId, amount, "PREDICTION_REFUND", predictionId))

\* The loop of cancel over the predictions that findMany returned.
RECURSIVE refundPredictions(_, _)
refundPredictions(acc, ids) ==
  IF ids = <<>> \/ ~acc.ok THEN acc
  ELSE LET id == Head(ids)
           p == acc.db.prediction[id]
           c == refundPrediction(acc.db, p.userId, p.stakeAmount, id)
       IN IF ~c.ok THEN Summary(c, 0, 0, 0)
          ELSE refundPredictions(
                 Summary(Ok([c.db EXCEPT !.prediction[id].status = "REFUNDED"],
                            0),
                         acc.winners + 1, 0, 0),
                 Tail(ids))

\* cancel, from the rows findMany returned to the commit; winners counts the
\* refunded predictions.
cancel(db, eventId, predictions) ==
  LET done == refundPredictions(Summary(Ok(db, 0), 0, 0, 0), predictions)
  IN IF ~done.ok THEN Summary(Fail(rollback(db, done.db), done.code), 0, 0, 0)
     ELSE Summary(Ok([done.db EXCEPT !.event[eventId].status = "CANCELLED"], 0),
                  done.winners, 0, 0)

\* cancel up to findMany: the event row is locked and checked, the PENDING
\* predictions are read without a lock.  userId and stakeAmount of a
\* prediction never change, so the rows read are kept by their ids.
CancelBegin(e) ==
  /\ EventRowFree(e)
  /\ IF event[e].status = "SETTLED" \/ event[e].status = "CANCELLED"
       THEN /\ result' = Returned("cancel", 0, "", Fail(DB, "EVENT_ALREADY_SETTLED"))
            /\ UNCHANGED cancelTx
       ELSE /\ cancelTx' = cancelTx \cup
                 {[eventId |-> e, predictions |-> PendingPredictions(DB, e)]}
            /\ UNCHANGED result
  /\ UNCHANGED <<calc, repairRead, rewardVars, workerVars, now, dbVars, ledgerTx, lockRead, cashoutReq, ledgerCalls,
                 settled>>

CancelCommit(t) ==
  LET r == cancel(DB, t.eventId, t.predictions)
  IN /\ \A u \in Owners(DB, t.predictions) : UserRowFree(u)
     /\ cancelTx' = cancelTx \ {t}
     /\ Commit(r.db)
     /\ result' = ReturnedRefunded(r)
     /\ UNCHANGED <<calc, repairRead, rewardVars, workerVars, now, ledgerTx, lockRead, cashoutReq, ledgerCalls, settled>>

\* cancel whose transaction reaches its timeout after k refunds.
CancelTimeout(t, k) ==
  /\ \A u \in Owners(DB, t.predictions) : UserRowFree(u)
  /\ k <= Len(t.predictions)
  /\ cancelTx' = cancelTx \ {t}
  /\ \E done \in {refundPredictions(Summary(Ok(DB, 0), 0, 0, 0),
                                     SubSeq(t.predictions, 1, k))} :
       /\ Commit(rollback(DB, done.db))
       /\ result' = ReturnedRefunded(Summary(Fail(DB, "P2028"), 0, 0, 0))
  /\ UNCHANGED <<calc, repairRead, rewardVars, workerVars, now, ledgerTx, lockRead, cashoutReq,
                 ledgerCalls, settled>>

\* lock: getById reads the event without a lock ...
LockRead(e) ==
  /\ IF event[e].status # "OPEN"
       THEN /\ result' = Returned("lock", 0, "", Fail(DB, "EVENT_NOT_OPEN"))
            /\ UNCHANGED lockRead
       ELSE /\ e \notin lockRead
            /\ lockRead' = lockRead \cup {e}
            /\ UNCHANGED result
  /\ UNCHANGED <<calc, repairRead, rewardVars, workerVars, now, dbVars, ledgerTx, cancelTx, cashoutReq, ledgerCalls,
                 settled>>

\* ... and the update that follows writes LOCKED whatever the row holds now.
LockWrite(e) ==
  /\ e \in lockRead
  /\ EventRowFree(e)
  /\ lockRead' = lockRead \ {e}
  /\ event' = [event EXCEPT ![e].status = "LOCKED"]
  /\ result' = Returned("lock", 0, "", Ok(DB, 0))
  /\ UNCHANGED <<calc, repairRead, rewardVars, workerVars, now, tokenBalance, pointsBalance, tokenTransaction,
                 pointsTransaction, tokenAllowance, prediction, ledgerTx,
                 cancelTx, cashoutReq, ledgerCalls, settled>>

\* Every OPEN event, started or not.
OpenEvents == {e \in DOMAIN event : event[e].status = "OPEN"}

Started ==
  {e \in DOMAIN event : event[e].status = "OPEN" /\ startsAt[e] <= now}

autoLockStartedEvents ==
  /\ Started # {}
  /\ \A e \in Started : EventRowFree(e)
  /\ event' = [e \in DOMAIN event |->
                 IF e \in Started THEN [event[e] EXCEPT !.status = "LOCKED"]
                 ELSE event[e]]
  /\ UNCHANGED <<calc, repairRead, rewardVars, workerVars, now, tokenBalance, pointsBalance, tokenTransaction,
                 pointsTransaction, tokenAllowance, prediction, ledgerTx,
                 cancelTx, lockRead, cashoutReq, ledgerCalls, settled, result>>

\* POST /events/auto-lock: autoLockStartedEvents as one updateMany, and the
\* count it returns.
AutoLock ==
  /\ \A e \in Started : EventRowFree(e)
  /\ event' = [e \in DOMAIN event |->
                 IF e \in Started THEN [event[e] EXCEPT !.status = "LOCKED"]
                 ELSE event[e]]
  /\ result' = Returned("autoLock", Cardinality(Started), "", Ok(DB, 0))
  /\ UNCHANGED <<calc, repairRead, rewardVars, workerVars, now, tokenBalance,
                 pointsBalance, tokenTransaction, pointsTransaction,
                 tokenAllowance, prediction, ledgerTx, cancelTx, lockRead,
                 cashoutReq, ledgerCalls, settled>>

\* ------------------------------------------------------------------ rewards
\* stockLimit of a reward without a stock limit (null in the database).
NoStockLimit == NoAmount

\* A read of the Reward row that waits for no lock.
RewardRowUnlocked(rw) == TRUE

\* SELECT ... FROM "Reward" ... FOR UPDATE, and the update of the row by a
\* cancel, wait while a redeem transaction holds the row.
RewardRowFree(rw) == \A t \in redeemTx : t.rewardId # rw

\* redeem up to the checks under the Reward row lock.
RedeemBegin(u, rw) ==
  /\ RewardRowFree(rw)
  /\ Len(redemption) + Cardinality(redeemTx) < MaxRedemptions
  /\ IF ~reward[rw].isActive
       THEN /\ result' = Returned("redeem", 0, "", Fail(DB, "REWARD_UNAVAILABLE"))
            /\ UNCHANGED redeemTx
     ELSE IF /\ reward[rw].stockLimit # NoStockLimit
             /\ reward[rw].stockClaimed >= reward[rw].stockLimit
       THEN /\ result' = Returned("redeem", 0, "", Fail(DB, "REWARD_OUT_OF_STOCK"))
            /\ UNCHANGED redeemTx
     ELSE /\ redeemTx' = redeemTx \cup
               {[userId |-> u, rewardId |-> rw,
                 pointsCost |-> reward[rw].pointsCost,
                 stockLimit |-> reward[rw].stockLimit]}
          /\ UNCHANGED result
  /\ UNCHANGED <<calc, repairRead, workerVars, now, dbVars, ledgerTx, cancelTx,
                 lockRead, cashoutReq, ledgerCalls, settled, reward,
                 redemption, redemptionRead>>

\* The rest of redeem: the redemption record, the points debit, the stock
\* counter, and the commit; a failed debit rolls all of it back.
RedeemCommit(t) ==
  /\ UserRowFree(t.userId)
  /\ redeemTx' = redeemTx \ {t}
  /\ \E id \in {Len(redemption) + 1} :
       \E d \in {debit(DB, "points",
                       Entry(t.userId, t.pointsCost, "REDEMPTION", id))} :
         /\ result' = Returned("redeem", t.pointsCost, "REDEMPTION", d)
         /\ IF ~d.ok
              THEN /\ Commit(rollback(DB, d.db))
                   /\ UNCHANGED <<reward, redemption>>
              ELSE /\ Commit(d.db)
                   /\ redemption' =
                        Append(redemption,
                               [userId |-> t.userId, rewardId |-> t.rewardId,
                                pointsCost |-> t.pointsCost,
                                status |-> "PENDING"])
                   /\ reward' =
                        IF t.stockLimit # NoStockLimit
                          THEN [reward EXCEPT ![t.rewardId].stockClaimed = @ + 1]
                          ELSE reward
  /\ UNCHANGED <<calc, repairRead, workerVars, now, ledgerTx, cancelTx,
                 lockRead, cashoutReq, ledgerCalls, settled, redemptionRead>>

\* fulfil and cancel up to their check: findUnique reads the redemption
\* without a lock, outside any transaction.
RedemptionRead(op, id) ==
  /\ IF redemption[id].status # "PENDING"
       THEN /\ result' = Returned(op, 0, "", Fail(DB, "CONFLICT"))
            /\ UNCHANGED redemptionRead
       ELSE /\ redemptionRead' = redemptionRead \cup
                 {[op |-> op, redemptionId |-> id, read |-> redemption[id],
                   stockLimit |-> reward[redemption[id].rewardId].stockLimit]}
            /\ UNCHANGED result
  /\ UNCHANGED <<calc, repairRead, workerVars, now, dbVars, ledgerTx, cancelTx,
                 lockRead, cashoutReq, ledgerCalls, settled, reward,
                 redemption, redeemTx>>

\* The update of fulfil.
FulfilWrite(t) ==
  /\ t.op = "fulfil"
  /\ redemptionRead' = redemptionRead \ {t}
  /\ redemption' = [redemption EXCEPT ![t.redemptionId].status = "FULFILLED"]
  /\ result' = Returned("fulfil", 0, "", Ok(DB, 0))
  /\ UNCHANGED <<calc, repairRead, workerVars, now, dbVars, ledgerTx, cancelTx,
                 lockRead, cashoutReq, ledgerCalls, settled, reward, redeemTx>>

\* The transaction of cancel: the refund, the status, the stock counter.
CancelRefund(t) ==
  /\ t.op = "cancel"
  /\ UserRowFree(t.read.userId)
  /\ RewardRowFree(t.read.rewardId)
  /\ redemptionRead' = redemptionRead \ {t}
  /\ \E c \in {credit(DB, "points",
                        Entry(t.read.userId, t.read.pointsCost,
                              "REDEMPTION_REFUND", t.redemptionId))} :
       /\ result' = Returned("cancel", t.read.pointsCost,
                              "REDEMPTION_REFUND", c)
       /\ IF ~c.ok
            THEN /\ Commit(rollback(DB, c.db))
                 /\ UNCHANGED <<reward, redemption>>
            ELSE /\ Commit(c.db)
                 /\ redemption' =
                      [redemption EXCEPT ![t.redemptionId].status = "CANCELLED"]
                 /\ reward' =
                      IF t.stockLimit # NoStockLimit
                        THEN [reward EXCEPT
                                ![t.read.rewardId].stockClaimed = @ - 1]
                        ELSE reward
  /\ UNCHANGED <<calc, repairRead, workerVars, now, ledgerTx, cancelTx,
                 lockRead, cashoutReq, ledgerCalls, settled, redeemTx>>

\* ------------------------------------------------------- settlement worker
digits == <<"0", "1", "2", "3", "4", "5", "6", "7", "8", "9">>

RECURSIVE decimalValue(_)
decimalValue(cs) ==
  IF cs = <<>> THEN 0
  ELSE 10 * decimalValue(SubSeq(cs, 1, Len(cs) - 1))
         + (CHOOSE d \in 0 .. 9 : digits[d + 1] = cs[Len(cs)])

\* Number(text) for a text of decimal digits, white space around them
\* allowed: the empty text is 0, any other text is NaN.
Number(text) ==
  LET cs == trim(characters[text])
  IN IF \A k \in DOMAIN cs : \E d \in DOMAIN digits : digits[d] = cs[k]
       THEN decimalValue(cs)
       ELSE NaN

\* A result of the scores API; the scores field is absent until there are
\* scores.
Score(completed, firstName, firstScore, secondName, secondScore) ==
  [completed |-> completed,
   scores |-> <<[name |-> firstName, score |-> firstScore],
                [name |-> secondName, score |-> secondScore]>>]
ScoreWithout(completed) == [completed |-> completed]

determineOutcome(outcomes, score) ==
  IF "scores" \notin DOMAIN score THEN NULL
  ELSE IF Len(score.scores) < 2 THEN NULL
  ELSE LET parsedScores ==
             [k \in DOMAIN score.scores |->
                [name |-> score.scores[k].name,
                 score |-> Number(score.scores[k].score)]]
           first == parsedScores[1]
           second == parsedScores[2]
           winnerName == IF first.score = second.score THEN "draw"
                         ELSE IF first.score > second.score THEN first.name
                         ELSE second.name
           HasDraw(outcome) ==
             includes(normalizeOutcome(outcome), characters["draw"])
           exactMatch == matchOutcomeExact(outcomes, winnerName)
       IN IF \E k \in DOMAIN parsedScores : parsedScores[k].score = NaN
            THEN NULL
          ELSE IF winnerName = "draw" THEN firstMatch(outcomes, HasDraw)
          ELSE IF exactMatch # NULL THEN exactMatch
          ELSE matchOutcomeByName(outcomes, winnerName)

SETTLEMENT_BATCH_SIZE == 100

\* findMany of the LOCKED events that carry external identifiers.
pendingEvents(db) ==
  LET Pending(e) == /\ e \in DOMAIN db.event
                    /\ db.event[e].status = "LOCKED"
                    /\ externalSportKey[e] # NULL
      found == SelectSeq(eventOrder, Pending)
  IN SubSeq(found, 1, Min(Len(found), SETTLEMENT_BATCH_SIZE))

\* The keys of eventsBySport in the order of their insertion.
RECURSIVE sportKeys(_)
sportKeys(events) ==
  IF events = <<>> THEN <<>>
  ELSE LET rest == sportKeys(SubSeq(events, 1, Len(events) - 1))
           key == externalSportKey[events[Len(events)]]
       IN IF \E k \in DOMAIN rest : rest[k] = key THEN rest
          ELSE Append(rest, key)

eventsOfSport(events, sportKey) ==
  LET Of(e) == externalSportKey[e] = sportKey IN SelectSeq(events, Of)

\* What a run has done with an event, as its log lines tell.
Logged(eventId, line) == [eventId |-> eventId, line |-> line]

\* A failed fetch that ends the run.
fetchAborted(r, events) ==
  [r EXCEPT !.groups = <<>>,
            !.errors = @ \o [k \in DOMAIN events |->
                               [eventId |-> events[k],
                                error |-> "Score fetch failed"]],
            !.failedEvents = @ + Len(events),
            !.log = @ \o [k \in DOMAIN events |->
                            Logged(events[k], "fetch failed")]]

\* A failed fetch: every event of the sport is recorded as failed.
fetchFailed(r, events) ==
  [r EXCEPT !.errors = @ \o [k \in DOMAIN events |->
                               [eventId |-> events[k],
                                error |-> "Score fetch failed"]],
            !.failedEvents = @ + Len(events),
            !.log = @ \o [k \in DOMAIN events |->
                            Logged(events[k], "fetch failed")]]

\* The guard of runOnce.
noRunInProgress == FALSE
previousRunInProgress == isRunning

\* runOnce up to the events it has read, or skipped at once.
RunOnce ==
  /\ runs < MaxRuns
  /\ runs' = runs + 1
  /\ IF previousRunInProgress
       THEN /\ runResult' = [run |-> runs + 1, settledEvents |-> 0,
                             failedEvents |-> 0]
            /\ UNCHANGED <<isRunning, workerRuns>>
       ELSE /\ isRunning' = TRUE
            /\ workerRuns' = workerRuns \cup
                 {[run |-> runs + 1, events |-> pendingEvents(DB),
                   groups |-> sportKeys(pendingEvents(DB)), queue |-> <<>>,
                   settledEvents |-> 0, failedEvents |-> 0, errors |-> <<>>,
                   log |-> <<>>]}
            /\ UNCHANGED runResult
  /\ UNCHANGED <<calc, repairRead, rewardVars, now, dbVars, ledgerTx, cancelTx, lockRead, cashoutReq,
                 ledgerCalls, settled, result, statusStore>>

\* What the scores API may hold for an event: nothing, a game in play, a
\* win of the home side, a win of a side that is no outcome of the event.
WorkerScores ==
  {Score(FALSE, "Home", "1", "Away", "0"), Score(TRUE, "Home", "2", "Away", "1"),
   Score(TRUE, "Void", "2", "Away", "1")}

ScoresById(events) ==
  {[k \in DOMAIN events |-> [eventId |-> events[k]]]}
    \cup [DOMAIN events -> WorkerScores]

ScoresOfNextSport(r) ==
  IF r.groups = <<>> THEN {}
  ELSE ScoresById(eventsOfSport(r.events, Head(r.groups)))

\* getScores for the next sport of the run: it fails, or returns scores.
FetchScores(r, failed, scores) ==
  LET sportKey == Head(r.groups)
      events == eventsOfSport(r.events, sportKey)
      next == [r EXCEPT !.groups = Tail(@)]
  IN /\ r.queue = <<>>
     /\ r.groups # <<>>
     /\ workerRuns' = (workerRuns \ {r}) \cup
          {IF failed THEN fetchFailed(next, events)
           ELSE [next EXCEPT !.queue =
                   [k \in DOMAIN events |->
                      IF "completed" \in DOMAIN scores[k]
                        THEN [eventId |-> events[k], score |-> scores[k]]
                        ELSE [eventId |-> events[k]]]]}
     /\ UNCHANGED <<calc, repairRead, rewardVars, now, dbVars, ledgerTx, cancelTx, lockRead,
                    cashoutReq, ledgerCalls, settled, result, isRunning,
                    statusStore, runs, runResult>>

\* An outcome taken from any score, completed or not.
outcomeOfAny(entry) ==
  IF "score" \notin DOMAIN entry THEN NULL
  ELSE determineOutcome(eventOutcomes, entry.score)

\* The outcome the worker settles an event with, NULL when it skips it.
outcomeOf(entry) ==
  IF "score" \notin DOMAIN entry THEN NULL
  ELSE IF ~entry.score.completed THEN NULL
  ELSE determineOutcome(eventOutcomes, entry.score)

\* if (!score?.completed) continue;
completedScore(entry) ==
  IF "score" \notin DOMAIN entry THEN FALSE ELSE entry.score.completed

\* The next event of the sport is skipped: silently when it has no completed
\* score, with a warning when no outcome could be determined.
SkipEvent(r) ==
  /\ r.queue # <<>>
  /\ outcomeOf(Head(r.queue)) = NULL
  /\ workerRuns' = (workerRuns \ {r}) \cup
       {[r EXCEPT !.queue = Tail(@),
                  !.log = Append(@, Logged(Head(r.queue).eventId,
                                           IF completedScore(Head(r.queue))
                                             THEN "no outcome"
                                             ELSE "skipped"))]}
  /\ UNCHANGED <<calc, repairRead, rewardVars, now, dbVars, ledgerTx, cancelTx, lockRead, cashoutReq,
                 ledgerCalls, settled, result, isRunning, statusStore, runs,
                 runResult>>

\* The next event of the sport is settled, in a transaction of its own.
WorkerSettle(r) ==
  /\ r.queue # <<>>
  /\ \E e \in {Head(r.queue).eventId}, outcome \in {outcomeOf(Head(r.queue))} :
       /\ outcome # NULL
       /\ EventRowFree(e)
       /\ \A u \in Owners(DB, PendingPredictions(DB, e)) : UserRowFree(u)
       /\ \E done \in {settle(DB, e, outcome)},
             next \in {[r EXCEPT !.queue = Tail(@)]} :
            /\ Commit(done.db)
            /\ settled' = [settled EXCEPT ![e] = IF done.ok THEN @ + 1 ELSE @]
            /\ workerRuns' = (workerRuns \ {r}) \cup
                 {IF done.ok
                    THEN [next EXCEPT !.settledEvents = @ + 1,
                                      !.log = Append(@, Logged(e, "settled"))]
                  ELSE IF done.code = "EVENT_ALREADY_SETTLED"
                    THEN [next EXCEPT
                            !.log = Append(@, Logged(e, "already settled"))]
                  ELSE [next EXCEPT
                          !.errors = Append(@, [eventId |-> e,
                                                error |-> done.code]),
                          !.failedEvents = @ + 1,
                          !.log = Append(@, Logged(e, "failed"))]}
  /\ UNCHANGED <<calc, repairRead, rewardVars, now, ledgerTx, cancelTx, lockRead, cashoutReq,
                 ledgerCalls, result, isRunning, statusStore, runs,
                 runResult>>

\* A flag that stays as it is when the run ends.
flagKept == isRunning

\* finally { isRunning = false }
flagReleased == FALSE

\* The run publishes its status and returns.
RunFinish(r) ==
  /\ r.queue = <<>>
  /\ r.groups = <<>>
  /\ statusStore' = [lastRunAt |-> now, settledEvents |-> r.settledEvents,
                     failedEvents |-> r.failedEvents, errors |-> r.errors]
  /\ runResult' = [run |-> r.run, settledEvents |-> r.settledEvents,
                   failedEvents |-> r.failedEvents]
  /\ isRunning' = flagReleased
  /\ workerRuns' = workerRuns \ {r}
  /\ UNCHANGED <<calc, repairRead, rewardVars, now, dbVars, ledgerTx, cancelTx, lockRead, cashoutReq,
                 ledgerCalls, settled, result, runs>>

\* The run throws outside the handlers of the loop (findMany or the status
\* store fails): the outer catch publishes an empty status and rethrows.
RunThrow(r) ==
  /\ statusStore' = [lastRunAt |-> now, settledEvents |-> 0,
                     failedEvents |-> 0, errors |-> <<>>]
  /\ runResult' = [run |-> r.run, thrown |-> TRUE]
  /\ isRunning' = flagReleased
  /\ workerRuns' = workerRuns \ {r}
  /\ UNCHANGED <<calc, repairRead, rewardVars, now, dbVars, ledgerTx,
                 cancelTx, lockRead, cashoutReq, ledgerCalls, settled, result,
                 runs>>

\* ------------------------------------------------------------ calculations
\* The pure functions, called on their own.
otherVars == <<now, dbVars, ledgerTx, cancelTx, lockRead, cashoutReq,
               ledgerCalls, settled, result, workerVars, repairRead,
               rewardVars>>

Call(fn, args) == [fn |-> fn, args |-> args, returned |-> FALSE, value |-> 0]
Return(value) == [calc EXCEPT !.returned = TRUE, !.value = value]

CalculatePayout ==
  /\ calc.fn = "calculatePayout" /\ ~calc.returned
  /\ calc' = Return(calculatePayout(calc.args[1], calc.args[2]))
  /\ UNCHANGED otherVars

CalculateCashoutValue ==
  /\ calc.fn = "calculateCashoutValue" /\ ~calc.returned
  /\ calc' = Return(calculateCashoutValue(calc.args[1], calc.args[2],
                                          calc.args[3], calc.args[4]))
  /\ UNCHANGED otherVars

DetermineOutcome ==
  /\ calc.fn = "determineOutcome" /\ ~calc.returned
  /\ calc' = Return(determineOutcome(calc.args[1], calc.args[2]))
  /\ UNCHANGED otherVars

\* ------------------------------------------------------------------- clock
Tick ==
  /\ now < MaxNow
  /\ now' = now + 1
  /\ UNCHANGED <<calc, repairRead, rewardVars, workerVars, dbVars, ledgerTx, cancelTx, lockRead,
                 cashoutReq, ledgerCalls, settled, result>>

\* -------------------------------------------------------------------- init
\* Every user is registered: register() credits the first daily allowance
\* and creates the allowance record (the signup bonus defaults to 0).  The
\* events are OPEN and start on day 1.
registered(events) ==
  [tokenBalance |-> [u \in Users |-> dailyAllowance],
   pointsBalance |-> [u \in Users |-> 0],
   tokenTransaction |-> [u \in Users |->
     <<[userId |-> u, amount |-> dailyAllowance,
        balanceAfter |-> dailyAllowance, type |-> "DAILY_ALLOWANCE",
        referenceId |-> 0]>>],
   pointsTransaction |-> [u \in Users |-> <<>>],
   tokenAllowance |-> [u \in Users |->
     [tokensRemaining |-> dailyAllowance, lastResetDate |-> 0]],
   event |-> [e \in events |-> [status |-> "OPEN", finalOutcome |-> NULL]],
   prediction |-> <<>>]

\* The rewards on offer: one reward with a stock limit.
initialRewards ==
  [r \in Rewards |->
     [pointsCost |-> 10, stockLimit |-> StockLimit, stockClaimed |-> 0,
      isActive |-> TRUE]]

\* The rows db on day today, the worker idle, and no call in progress but
\* the lock calls that have read the events of reads as OPEN.
Idle(db, today, reads) ==
  /\ now = today
  /\ tokenBalance = db.tokenBalance
  /\ pointsBalance = db.pointsBalance
  /\ tokenTransaction = db.tokenTransaction
  /\ pointsTransaction = db.pointsTransaction
  /\ tokenAllowance = db.tokenAllowance
  /\ event = db.event
  /\ prediction = db.prediction
  /\ ledgerTx = {}
  /\ cancelTx = {}
  /\ lockRead = reads
  /\ repairRead = {}
  /\ reward = initialRewards
  /\ redemption = <<>>
  /\ redeemTx = {}
  /\ redemptionRead = {}
  /\ cashoutReq = {}
  /\ ledgerCalls = 0
  /\ settled = [e \in DOMAIN db.event |-> 0]
  /\ result = Returned("none", 0, "", Ok(db, 0))
  /\ isRunning = FALSE
  /\ workerRuns = {}
  /\ statusStore = [lastRunAt |-> NULL, settledEvents |-> 0,
                    failedEvents |-> 0, errors |-> <<>>]
  /\ runs = 0
  /\ runResult = [run |-> 0, settledEvents |-> 0, failedEvents |-> 0]

InitStore == Idle(registered(Events), 0, {})

Init == InitStore /\ calc = Call("none", <<>>)

\* Calls made by the users and operators of the platform, and the clock.
Next ==
  \/ Tick
  \/ \E u \in Users, e \in Events, o \in OutcomeInputs, s \in StakeAmounts,
        p \in PlacePrices : Place(u, e, o, s, p)
  \/ \E pid \in PredictionIds(DB), u \in Users, p \in CurrentPrices,
        age \in StoreOddsAges : cashoutReq = {} /\ CashoutValue(pid, u, p, age)
  \/ \E c \in cashoutReq : CashoutCommit(c)
  \/ \E e \in Events, o \in SettleInputs : Settle(e, o)
  \/ \E e \in Events : CancelBegin(e)
  \/ \E t \in cancelTx : CancelCommit(t)
  \/ \E e \in Events : LockRead(e)
  \/ \E e \in Events : LockWrite(e)
  \/ autoLockStartedEvents

Spec == Init /\ [][Next]_vars

\* Direct calls of the ledger and of the allowance manager for one account,
\* next to the stakes and refunds that go through them.
NextLedger ==
  \/ Tick
  \/ \E u \in LedgerUsers, cur \in {"token", "points"}, a \in CreditAmounts,
        ty \in CreditTypes : Credit(u, cur, a, ty)
  \/ \E u \in LedgerUsers, cur \in {"token", "points"}, a \in DebitAmounts :
        Debit(u, cur, a)
  \/ \E t \in ledgerTx : LedgerCommit(t)
  \/ \E u \in LedgerUsers : GetStatus(u)
  \/ \E u \in LedgerUsers, e \in Events, s \in StakeAmounts, p \in PlacePrices :
        Place(u, e, "Home", s, p)
  \/ \E e \in Events : CancelBegin(e)
  \/ \E t \in cancelTx : CancelCommit(t)

SpecLedger == Init /\ [][NextLedger]_vars

\* Settlements and cancellations that may abort part-way, on stakes placed
\* before them.
NextAbort ==
  \/ Tick
  \/ \E u \in Users, e \in Events, s \in StakeAmounts, p \in PlacePrices :
        Place(u, e, "Home", s, p)
  \/ \E e \in Events, o \in SettleInputs : Settle(e, o)
  \/ \E e \in Events, o \in SettleInputs, k \in 0 .. MaxWritten :
        SettleTimeout(e, o, k)
  \/ \E e \in Events : CancelBegin(e)
  \/ \E t \in cancelTx : CancelCommit(t)
  \/ \E t \in cancelTx, k \in 0 .. MaxWritten : CancelTimeout(t, k)
  \/ autoLockStartedEvents

SpecAbort == Init /\ [][NextAbort]_vars

\* The allowance of one account over several days, next to admin credits
\* that move the ledger balance away from the allowance counter.
NextAllowance ==
  \/ NextDay
  \/ \E u \in LedgerUsers : GetStatus(u)
  \/ \E u \in LedgerUsers, a \in ConsumeAmounts, ref \in ConsumeRefs :
        ConsumeTokens(u, a, ref)
  \/ \E u \in LedgerUsers, a \in AllowanceCredits :
        Credit(u, "token", a, "ADMIN_CREDIT")
  \/ \E t \in ledgerTx : LedgerCommit(t)

SpecAllowance == Init /\ [][NextAllowance]_vars

\* Repairs of the cached balance of one account next to credits and debits
\* on it.
NextRepair ==
  \/ \E u \in LedgerUsers, a \in CreditAmounts, t \in CreditTypes :
        Credit(u, "token", a, t)
  \/ \E u \in LedgerUsers, a \in DebitAmounts : Debit(u, "token", a)
  \/ \E t \in ledgerTx : LedgerCommit(t)
  \/ \E u \in LedgerUsers : RepairRead(u)
  \/ \E t \in repairRead : RepairWrite(t)

SpecRepair == Init /\ [][NextRepair]_vars

\* The events of the feed, OPEN at first, with the operator's lock, settle
\* and cancel calls, the auto-lock job, and the clock.
InitLock ==
  Idle(registered(WorkerEvents), 0, {}) /\ calc = Call("none", <<>>)

NextLock ==
  \/ Tick
  \/ AutoLock
  \/ \E e \in WorkerEvents : LockRead(e)
  \/ \E e \in WorkerEvents : LockWrite(e)
  \/ \E e \in WorkerEvents, o \in EventOutcomes : Settle(e, o)
  \/ \E e \in WorkerEvents : CancelBegin(e)
  \/ \E t \in cancelTx : CancelCommit(t)

SpecLock == InitLock /\ [][NextLock]_vars

\* The rewards shop: two users with points, one of them short of a second
\* redemption, redeeming a reward of limited stock, and the admin calls that
\* fulfil and cancel their redemptions.
withPoints ==
  credit(credit(registered(Events), "points",
                Entry("u1", 20, "ADMIN_CREDIT", 0)).db,
         "points", Entry("u2", 10, "ADMIN_CREDIT", 0)).db

InitRewards == Idle(withPoints, 0, {}) /\ calc = Call("none", <<>>)

NextRewards ==
  \/ \E u \in Users, rw \in Rewards : RedeemBegin(u, rw)
  \/ \E t \in redeemTx : RedeemCommit(t)
  \/ \E op \in {"fulfil", "cancel"}, id \in DOMAIN redemption :
        RedemptionRead(op, id)
  \/ \E t \in redemptionRead : FulfilWrite(t)
  \/ \E t \in redemptionRead : CancelRefund(t)

SpecRewards == InitRewards /\ [][NextRewards]_vars

\* Cashout calls for one prediction, two of them in flight at a time, next to
\* the settlement and the cancellation of its event.
placedRows == place(registered(Events), "u1", "e1", "Home", 15, 820, 0).db

InitCashout == Idle(placedRows, 0, {}) /\ calc = Call("none", <<>>)

NextCashout ==
  \/ Tick
  \/ \E pid \in PredictionIds(DB), u \in Users, p \in CurrentPrices,
        age \in OddsAges : CashoutValue(pid, u, p, age)
  \/ \E c \in cashoutReq : CashoutCommit(c)
  \/ \E e \in Events, o \in EventOutcomes : Settle(e, o)
  \/ \E e \in Events : CancelBegin(e)
  \/ \E t \in cancelTx : CancelCommit(t)

SpecCashout == InitCashout /\ [][NextCashout]_vars

\* The settlement worker over three LOCKED events of two sports that have
\* started, each with one prediction on Home, while e1 is settled or
\* cancelled by hand.  The stake on e3 was placed at 0.50: its win pays 0,
\* which the points ledger refuses.  A lock call of an operator may have
\* read e1 while it was OPEN, before autoLockStartedEvents locked it, and
\* not have written yet.
stakedOnE1 ==
  place(registered(WorkerEvents), "u1", "e1", "Home", 1, 820, 0).db

stakedOnE2 == place(stakedOnE1, "u2", "e2", "Home", 1, 820, 0).db

lockedRows ==
  [place(stakedOnE2, "u1", "e3", "Home", 1, 50, 0).db EXCEPT !.event =
     [e \in WorkerEvents |-> [status |-> "LOCKED", finalOutcome |-> NULL]]]

InitWorker ==
  \E reads \in SUBSET Events :
    Idle(lockedRows, 1, reads) /\ calc = Call("none", <<>>)

NextWorker ==
  \/ RunOnce
  \/ \E r \in workerRuns :
        \E failed \in BOOLEAN, scores \in ScoresOfNextSport(r) :
          FetchScores(r, failed, scores)
  \/ \E r \in workerRuns : SkipEvent(r)
  \/ \E r \in workerRuns : WorkerSettle(r)
  \/ \E r \in workerRuns : RunFinish(r)
  \/ \E r \in workerRuns : RunThrow(r)
  \/ \E e \in Events, o \in EventOutcomes : Settle(e, o)
  \/ \E e \in Events : CancelBegin(e)
  \/ \E t \in cancelTx : CancelCommit(t)
  \/ \E e \in Events : LockRead(e)
  \/ \E e \in Events : LockWrite(e)

SpecWorker == InitWorker /\ [][NextWorker]_vars

\* The calculations with the arguments of the unit tests and others like
\* them.
ScoreInputs ==
  {Score(TRUE, n1, s1, n2, s2) : n1 \in FirstNames, s1 \in ScoreTexts,
                                 n2 \in SecondNames, s2 \in ScoreTexts}
    \cup {ScoreWithout(TRUE),
          [completed |-> TRUE, scores |-> <<[name |-> "Arsenal", score |-> "2"]>>]}

CalcCalls ==
  {Call("calculatePayout", <<s, o>>) : s \in PayoutStakes, o \in PayoutOdds}
    \cup {Call("calculateCashoutValue", <<s, a, c, b>>) :
            s \in CashoutStakes, a \in CashoutPrices, c \in CashoutPrices,
            b \in BOOLEAN}
    \cup {Call("determineOutcome", <<outcomes, score>>) :
            outcomes \in OutcomeLists, score \in ScoreInputs}

InitCalc == InitStore /\ calc \in CalcCalls

NextCalc == CalculatePayout \/ CalculateCashoutValue \/ DetermineOutcome

SpecCalc == InitCalc /\ [][NextCalc]_vars

\* ===================================================================== claims

Balance(cur, u) == IF cur = "token" THEN tokenBalance[u] ELSE pointsBalance[u]

\* C1: for every user and each currency the cached balance equals the sum of
\* the amounts of the user's ledger entries and is never negative, whatever
\* credit and debit calls were made, interleaved, successful or failed.
LedgerIntegrity ==
  \A u \in Users :
    /\ tokenBalance[u] = SumAmounts(tokenTransaction[u])
    /\ pointsBalance[u] = SumAmounts(pointsTransaction[u])
    /\ tokenBalance[u] >= 0
    /\ pointsBalance[u] >= 0

\* A debit has just been committed on a ledger that already holds a credit
\* made by a direct call.
LedgerIntegrityWitness ==
  \E u \in Users :
    /\ result.op = "debit" /\ result.code = "OK"
    /\ \E i \in 1 .. Len(tokenTransaction[u]) :
         tokenTransaction[u][i].type = "ADMIN_CREDIT"
    /\ \E i \in 1 .. Len(tokenTransaction[u]) :
         tokenTransaction[u][i].type = "ADMIN_DEBIT"

\* C8: a debit of more than the current balance fails with
\* InsufficientBalance(required = the amount, available = the balance) and
\* writes no entry and no balance; a stake that fails this way inside place
\* leaves nothing of place's transaction behind.
DebitRejected ==
  /\ [][\A t \in ledgerTx :
          (/\ ledgerTx' = ledgerTx \ {t}
           /\ t.op = "debit"
           /\ Balance(t.cur, t.entry.userId) < t.amount)
          => /\ result'.code = "INSUFFICIENT_BALANCE"
             /\ result'.required = t.amount
             /\ result'.available = Balance(t.cur, t.entry.userId)
             /\ UNCHANGED dbVars]_vars
  /\ [][(/\ result' # result
         /\ result'.op = "place"
         /\ result'.code = "INSUFFICIENT_BALANCE")
        => UNCHANGED dbVars]_vars

\* A direct debit of 16 has been refused.
DebitRejectedWitness ==
  /\ result.op = "debit"
  /\ result.code = "INSUFFICIENT_BALANCE"
  /\ result.required = 16
  /\ result.available < 16

\* C9: credit with an amount <= 0 fails with an invalid-amount error and
\* credit of the reserved kind PURCHASE fails with Forbidden; neither inserts
\* an entry nor changes a balance.
CreditRejected ==
  /\ [](/\ \A t \in ledgerTx :
             t.op = "credit" => t.entry.amount > 0 /\ t.entry.type # "PURCHASE"
        /\ \A u \in Users :
             /\ \A i \in 1 .. Len(tokenTransaction[u]) :
                  tokenTransaction[u][i].type # "PURCHASE"
             /\ \A i \in 1 .. Len(pointsTransaction[u]) :
                  pointsTransaction[u][i].type # "PURCHASE")
  /\ [][(ledgerCalls' # ledgerCalls /\ ledgerTx' = ledgerTx)
        => /\ result'.op = "credit"
           /\ \/ result'.amount <= 0 /\ result'.code = "BAD_REQUEST"
              \/ /\ result'.amount > 0
                 /\ result'.type = "PURCHASE"
                 /\ result'.code = "FORBIDDEN"
           /\ UNCHANGED dbVars]_vars

\* A credit of the reserved kind has been refused.
CreditRejectedWitness ==
  /\ result.op = "credit"
  /\ result.code = "FORBIDDEN"
  /\ result.type = "PURCHASE"

\* ------------------------------------------------------------ settlement
Count(rows, type, referenceId) ==
  Cardinality({i \in 1 .. Len(rows) : /\ rows[i].type = type
                                      /\ rows[i].referenceId = referenceId})

RECURSIVE SumOf(_, _, _)
SumOf(rows, type, ids) ==
  IF rows = <<>> THEN 0
  ELSE (IF Head(rows).type = type /\ Head(rows).referenceId \in ids
          THEN Head(rows).amount ELSE 0) + SumOf(Tail(rows), type, ids)

RECURSIVE SumOver(_, _)
SumOver(f, S) ==
  IF S = {} THEN 0
  ELSE LET x == CHOOSE x \in S : TRUE IN f[x] + SumOver(f, S \ {x})

PredictionsOf(e) == {i \in 1 .. Len(prediction) : prediction[i].eventId = e}

\* Points credited as winnings for the predictions of an event.
WinCredited(e) ==
  SumOver([u \in Users |->
             SumOf(pointsTransaction[u], "PREDICTION_WIN", PredictionsOf(e))],
          Users)

\* floor(stake * odds) over the PENDING predictions of e that chose outcome o.
PendingWinTotal(e, o) ==
  SumOver([i \in PredictionsOf(e) |->
             IF prediction[i].status = "PENDING"
                /\ prediction[i].predictedOutcome = o
               THEN (prediction[i].stakeAmount * prediction[i].originalOdds)
                      \div OddsDen
               ELSE 0],
          PredictionsOf(e))

\* C2: of all the settle calls on an event at most one succeeds, every call
\* made after it fails with EventAlreadySettled, and the points credited for
\* the event are those of the one pass over the predictions that were
\* PENDING when the successful call ran.
NoDoubleSettlement ==
  /\ [](\A e \in Events : settled[e] <= 1)
  /\ [][(/\ result' # result
         /\ result'.op = "settle"
         /\ \A e \in Events : settled[e] >= 1)
        => result'.code = "EVENT_ALREADY_SETTLED"]_vars
  /\ [][\A e \in Events :
          IF settled'[e] = settled[e] + 1
            THEN WinCredited(e)' =
                   WinCredited(e) + PendingWinTotal(e, event'[e].finalOutcome)
            ELSE WinCredited(e)' = WinCredited(e)]_vars

\* The compensating credits written for a prediction.
CompensatingCredits(pid) ==
  SumOver([u \in Users |->
             Count(pointsTransaction[u], "PREDICTION_WIN", pid)
               + Count(pointsTransaction[u], "CASHOUT", pid)
               + Count(tokenTransaction[u], "PREDICTION_REFUND", pid)],
          Users)

\* C3: at most one compensating credit (win, cashout or refund) is ever
\* written for a prediction.
OneCompensatingCredit ==
  \A pid \in 1 .. Len(prediction) : CompensatingCredits(pid) <= 1

\* C4: a prediction that has left PENDING never changes status again.
PredictionTerminal ==
  [][\A i \in 1 .. Len(prediction) :
       prediction[i].status # "PENDING"
         => prediction'[i].status = prediction[i].status]_vars

\* C5: an event that is SETTLED or CANCELLED never changes status again.
EventTerminal ==
  [][\A e \in Events :
       event[e].status \in {"SETTLED", "CANCELLED"}
         => event'[e].status = event[e].status]_vars

\* C6: there is at most one prediction per (user, event); a place call creates
\* a PENDING prediction only for a pair that has none and debits its stake
\* once; a place call for a pair that has one fails with AlreadyPredicted and
\* debits nothing.
OnePredictionPerUserEvent ==
  /\ [](\A i, j \in 1 .. Len(prediction) :
          (/\ prediction[i].userId = prediction[j].userId
           /\ prediction[i].eventId = prediction[j].eventId) => i = j)
  /\ [](\A u \in Users, e \in Events, o \in OutcomeInputs, s \in StakeAmounts,
           p \in PlacePrices :
          (/\ findPrediction(DB, u, e) # {}
           /\ event[e].status = "OPEN"
           /\ startsAt[e] > now)
          => /\ place(DB, u, e, o, s, p, now).code = "ALREADY_PREDICTED"
             /\ place(DB, u, e, o, s, p, now).db = DB)
  /\ [][Len(prediction') > Len(prediction)
        => LET id == Len(prediction')
               p == prediction'[id]
           IN /\ id = Len(prediction) + 1
              /\ p.status = "PENDING"
              /\ findPrediction(DB, p.userId, p.eventId) = {}
              /\ Count(tokenTransaction'[p.userId], "PREDICTION_STAKE", id) = 1
              /\ tokenTransaction'[p.userId][Len(tokenTransaction'[p.userId])]
                   .amount = -p.stakeAmount]_vars
  /\ [][(/\ result' # result
         /\ result'.op = "place"
         /\ result'.code = "ALREADY_PREDICTED")
        => UNCHANGED dbVars]_vars

\* A user who holds a prediction has been refused a second one.
OnePredictionWitness ==
  /\ result.op = "place"
  /\ result.code = "ALREADY_PREDICTED"
  /\ Len(prediction) >= 1
  /\ \A u \in Users : Count(tokenTransaction[u], "PREDICTION_STAKE", 1) <= 1

\* C7: tokensRemaining of an allowance record never exceeds maxAllowance.
AllowanceCap ==
  \A u \in Users : tokenAllowance[u].tokensRemaining <= maxAllowance

\* C10: a successful settle turns every PENDING prediction of the event that
\* chose the final outcome into WON with payout floor(stake * odds) and
\* credits exactly that to its owner's points ledger as winnings of the
\* prediction; every other PENDING prediction becomes LOST with payout 0 and
\* gets no ledger entry.
SettleResolves ==
  [][\A e \in Events :
       settled'[e] = settled[e] + 1 =>
         \A i \in 1 .. Len(prediction) :
           (prediction[i].eventId = e /\ prediction[i].status = "PENDING") =>
             LET p == prediction[i]
                 q == prediction'[i]
                 odds == IF p.originalOdds # NoAmount THEN p.originalOdds
                         ELSE payoutMultiplier
                 rows == pointsTransaction'[p.userId]
             IN IF p.predictedOutcome = event'[e].finalOutcome
                  THEN /\ q.status = "WON"
                       /\ q.payout * OddsDen <= p.stakeAmount * odds
                       /\ p.stakeAmount * odds < (q.payout + 1) * OddsDen
                       /\ Len(rows) = Len(pointsTransaction[p.userId]) + 1
                       /\ rows[Len(rows)].type = "PREDICTION_WIN"
                       /\ rows[Len(rows)].referenceId = i
                       /\ rows[Len(rows)].amount = q.payout
                       /\ pointsBalance'[p.userId]
                            = pointsBalance[p.userId] + q.payout
                  ELSE /\ q.status = "LOST"
                       /\ q.payout = 0
                       /\ rows = pointsTransaction[p.userId]
                       /\ pointsBalance'[p.userId] = pointsBalance[p.userId]
                       /\ tokenTransaction'[p.userId]
                            = tokenTransaction[p.userId]]_vars

RefundRows(rows, i) ==
  {k \in DOMAIN rows : /\ rows[k].type = "PREDICTION_REFUND"
                        /\ rows[k].referenceId = i}

\* C11: a successful cancel credits the token ledger of the owner of every
\* PENDING prediction of the event with that prediction's stake, as a refund
\* that references the prediction, marks each of them REFUNDED, marks the
\* event CANCELLED and returns the number of predictions it refunded.
CancelRefunds ==
  [][\A e \in Events :
       (event[e].status # "CANCELLED" /\ event'[e].status = "CANCELLED") =>
         LET refunded == {i \in 1 .. Len(prediction) :
                            /\ prediction[i].eventId = e
                            /\ prediction'[i].status = "REFUNDED"
                            /\ prediction[i].status # "REFUNDED"}
         IN /\ \A i \in 1 .. Len(prediction) :
                 (prediction[i].eventId = e /\ prediction[i].status = "PENDING")
                   => LET u == prediction[i].userId
                          before == tokenTransaction[u]
                          after == tokenTransaction'[u]
                      IN /\ i \in refunded
                         /\ Len(after) = Len(before) + 1
                         /\ after[Len(after)].type = "PREDICTION_REFUND"
                         /\ after[Len(after)].referenceId = i
                         /\ after[Len(after)].amount = prediction[i].stakeAmount
                         /\ Cardinality(RefundRows(after, i)) = 1
                         /\ tokenBalance'[u]
                              = tokenBalance[u] + prediction[i].stakeAmount
            /\ result'.op = "cancel"
            /\ result'.code = "OK"
            /\ result'.refunded = Cardinality(refunded)]_vars

\* A cancellation has refunded the predictions of both users.
CancelRefundsWitness ==
  /\ result.op = "cancel" /\ result.code = "OK" /\ result.refunded = 2
  /\ \A e \in Events : event[e].status = "CANCELLED"
  /\ \A i \in 1 .. Len(prediction) : prediction[i].status = "REFUNDED"

CashoutRows(rows, i) ==
  {k \in DOMAIN rows : rows[k].type = "CASHOUT" /\ rows[k].referenceId = i}

AllCashoutRows(i) ==
  {<<u, k>> \in Users \X (1 .. 8) :
     k \in CashoutRows(pointsTransaction[u], i)}

\* C12: of the cashout calls that the owner of a prediction issues, one
\* after another or at the same time, at most one succeeds: it writes one
\* CASHOUT credit to the points ledger and leaves the prediction CASHED_OUT
\* with that amount as payout; every other call fails with
\* CASHOUT_UNAVAILABLE and credits nothing.
OneCashout ==
  /\ [](\A i \in 1 .. Len(prediction) : Cardinality(AllCashoutRows(i)) <= 1)
  /\ [][\A i \in 1 .. Len(prediction) :
         LET u == prediction[i].userId
             before == pointsTransaction[u]
             after == pointsTransaction'[u]
         IN /\ (CashoutRows(after, i) # CashoutRows(before, i))
                 => /\ Len(after) = Len(before) + 1
                    /\ CashoutRows(before, i) = {}
                    /\ CashoutRows(after, i) = {Len(after)}
                    /\ prediction'[i].status = "CASHED_OUT"
                    /\ prediction'[i].payout = after[Len(after)].amount
                    /\ pointsBalance'[u]
                         = pointsBalance[u] + after[Len(after)].amount
                    /\ result'.op = "cashout" /\ result'.code = "OK"
            /\ (/\ result' # result
                /\ result'.op = "cashout"
                /\ result'.predictionId = i
                /\ result'.userId = u
                /\ CashoutRows(before, i) # {})
                 => /\ result'.code = "CASHOUT_UNAVAILABLE"
                    /\ UNCHANGED dbVars]_vars

\* Of two calls of the owner that were in flight together one has credited
\* the cashout and the other has been refused.
OneCashoutWitness ==
  /\ result.op = "cashout" /\ result.code = "CASHOUT_UNAVAILABLE"
  /\ result.committed
  /\ cashoutReq = {}
  /\ \E i \in 1 .. Len(prediction) :
       /\ result.predictionId = i
       /\ result.userId = prediction[i].userId
       /\ prediction[i].status = "CASHED_OUT"
       /\ Cardinality(AllCashoutRows(i)) = 1
       /\ prediction[i].payout > 0
       /\ pointsBalance[prediction[i].userId] = prediction[i].payout

\* C13: a place call whose stake debit fails for want of tokens fails, and
\* leaves no prediction, no token ledger entry, and the token balance and
\* the allowance record of the user as they were.
PlaceRejectedLeavesNothing ==
  /\ [](\A u \in Users, e \in Events, o \in OutcomeInputs,
          s \in StakeAmounts, p \in PlacePrices :
          LET r == place(DB, u, e, o, s, p, now)
          IN r.code = "INSUFFICIENT_BALANCE" =>
               /\ ~r.ok
               /\ r.db.prediction = prediction
               /\ r.db.tokenTransaction = tokenTransaction
               /\ r.db.tokenBalance = tokenBalance
               /\ r.db.tokenAllowance = tokenAllowance)
  /\ [][(/\ result' # result
         /\ result'.op = "place"
         /\ result'.code = "INSUFFICIENT_BALANCE")
        => /\ prediction' = prediction
           /\ tokenTransaction' = tokenTransaction
           /\ tokenBalance' = tokenBalance
           /\ tokenAllowance' = tokenAllowance]_vars

\* A stake of 15 has been refused to a user who holds fewer tokens and no
\* prediction.
PlaceRejectedWitness ==
  /\ result.op = "place" /\ result.code = "INSUFFICIENT_BALANCE"
  /\ result.required = 15 /\ result.available < 15
  /\ prediction = <<>>

\* C14: the worker settles an event at most once, whether it runs twice in
\* a row or while the event is settled or cancelled by hand; a settle attempt
\* of the worker on an event that is already SETTLED or CANCELLED credits
\* nothing, changes no prediction, and counts neither as settled nor as
\* failed.
WorkerSettlesOnce ==
  /\ [][\A r \in workerRuns, t \in workerRuns' :
         (/\ t.run = r.run
          /\ r.queue # <<>>
          /\ t.queue = Tail(r.queue)
          /\ settled'[Head(r.queue).eventId] # settled[Head(r.queue).eventId])
           => settled[Head(r.queue).eventId] = 0]_vars
  /\ [][\A r \in workerRuns, t \in workerRuns' :
         (/\ t.run = r.run
          /\ r.queue # <<>>
          /\ t.queue = Tail(r.queue)
          /\ outcomeOf(Head(r.queue)) # NULL
          /\ event[Head(r.queue).eventId].status \in {"SETTLED", "CANCELLED"})
           => /\ UNCHANGED dbVars
              /\ settled' = settled
              /\ t.settledEvents = r.settledEvents
              /\ t.failedEvents = r.failedEvents
              /\ t.errors = r.errors]_vars

\* C15: at most one run of the worker is in progress; a runOnce called while
\* a run is in progress is skipped: it returns zero settled and zero failed,
\* settles nothing and leaves the published status as it was.
SingleFlight ==
  /\ [](Cardinality(workerRuns) <= 1)
  /\ [](isRunning <=> workerRuns # {})
  /\ [][(runs' = runs + 1 /\ workerRuns # {})
        => /\ runResult' = [run |-> runs', settledEvents |-> 0,
                            failedEvents |-> 0]
           /\ workerRuns' = workerRuns
           /\ statusStore' = statusStore
           /\ settled' = settled
           /\ UNCHANGED dbVars]_vars

\* The second runOnce has been skipped while the first was at work.
SingleFlightWitness ==
  /\ runs = 2
  /\ runResult.run = 2
  /\ \E r \in workerRuns : r.run = 1 /\ r.queue # <<>>

LinesOf(r, e) == {k \in DOMAIN r.log : r.log[k].eventId = e}
Line(r, e) == r.log[CHOOSE k \in LinesOf(r, e) : TRUE].line
ErrorsOf(errors, e) == {k \in DOMAIN errors : errors[k].eventId = e}

NumericText(text) == trim(characters[text]) # <<>> /\ Number(text) # NaN

\* C17: determineOutcome takes the side with the higher of the two reported
\* scores as the winner, equal scores being a draw, and returns the outcome
\* label that matches the winner, by normalized exact match first and by
\* substring match as a fallback; it returns null when no label matches or
\* when the scores are missing or are not numbers.
OutcomeDetermined ==
  (calc.fn = "determineOutcome" /\ calc.returned) =>
    LET outcomes == calc.args[1]
        score == calc.args[2]
        entries == score.scores
        winner == IF Number(entries[1].score) = Number(entries[2].score)
                    THEN "draw"
                  ELSE IF Number(entries[1].score) > Number(entries[2].score)
                    THEN entries[1].name
                  ELSE entries[2].name
    IN IF "scores" \notin DOMAIN score THEN calc.value = NULL
       ELSE IF Len(entries) < 2 THEN calc.value = NULL
       ELSE IF \E k \in DOMAIN entries : ~NumericText(entries[k].score)
         THEN calc.value = NULL
       ELSE calc.value = matchOutcomeByName(outcomes, winner)

\* C18: calculateCashoutValue is max(0, floor(stake * (originalOdds /
\* currentOdds) * margin)), the margin being 0.95 before the event has
\* started and 0.90 after, and is never negative.
CashoutValueIsFloor ==
  (calc.fn = "calculateCashoutValue" /\ calc.returned) =>
    LET originalStakeTokens == calc.args[1]
        originalOdds == calc.args[2]
        currentOdds == calc.args[3]
        eventStarted == calc.args[4]
        percent == IF eventStarted THEN 90 ELSE 95
    IN /\ calc.value >= 0
       /\ calc.value = Max(0, (originalStakeTokens * originalOdds * percent)
                                \div (currentOdds * 100))

\* C19: calculatePayout(stake, odds) is floor(stake * odds) for every stake
\* that is a non-negative integer and every positive odds.
PayoutIsFloor ==
  (calc.fn = "calculatePayout" /\ calc.returned) =>
    calc.value = (calc.args[1] * calc.args[2]) \div OddsDen

\* C20: lock, settle and cancel on an event that is SETTLED or CANCELLED
\* each fail with EVENT_ALREADY_SETTLED and change neither the event, nor a
\* prediction, nor a ledger or a balance.
TerminalEventRejects ==
  [][\A e \in Events :
       (/\ event[e].status \in {"SETTLED", "CANCELLED"}
        /\ result' # result
        /\ result'.op \in {"lock", "settle", "cancel"})
         => /\ result'.code = "EVENT_ALREADY_SETTLED"
            /\ UNCHANGED dbVars]_vars

\* C21: a settlement leaves every prediction of the event that is not PENDING
\* when it runs as it is, in status, payout and cashout amount, and credits
\* no winnings for it; no prediction is ever paid both a cashout and a win.
SettleSkipsResolved ==
  /\ [][\A e \in Events :
         settled'[e] # settled[e] =>
           \A i \in PredictionsOf(e) :
             prediction[i].status # "PENDING" =>
               /\ prediction'[i] = prediction[i]
               /\ \A u \in Users :
                    Count(pointsTransaction'[u], "PREDICTION_WIN", i)
                      = Count(pointsTransaction[u], "PREDICTION_WIN", i)]_vars
  /\ [](\A i \in 1 .. Len(prediction), u \in Users :
          Count(pointsTransaction[u], "CASHOUT", i) = 0
            \/ Count(pointsTransaction[u], "PREDICTION_WIN", i) = 0)

\* The event has been settled with the outcome of a prediction that had been
\* cashed out before.
SettleSkipsResolvedWitness ==
  /\ result.op = "settle" /\ result.code = "OK"
  /\ \E i \in 1 .. Len(prediction) :
       /\ prediction[i].status = "CASHED_OUT"
       /\ event[prediction[i].eventId].status = "SETTLED"
       /\ event[prediction[i].eventId].finalOutcome
            = prediction[i].predictedOutcome
       /\ Count(pointsTransaction[prediction[i].userId], "CASHOUT", i) = 1

NoPendingOnTerminal ==
  \A i \in 1 .. Len(prediction) :
    event[prediction[i].eventId].status \in {"SETTLED", "CANCELLED"}
      => prediction[i].status # "PENDING"

\* An event with the predictions of both users has been cancelled while a
\* cashout of one of them was on its way.
NoPendingOnTerminalWitness ==
  /\ Len(prediction) = 2
  /\ \A i \in 1 .. Len(prediction) :
       /\ event[prediction[i].eventId].status = "CANCELLED"
       /\ prediction[i].status = "REFUNDED"
  /\ cashoutReq # {}

\* C24: a settle or a cancel whose transaction aborts part-way, because a
\* ledger credit fails or the timeout of 30 seconds is reached, changes no
\* prediction, no ledger entry and no balance, and leaves the event in the
\* status it had, which is not a terminal one, so the call can be retried.
AbortChangesNothing ==
  [][(\/ \E e \in Events, o \in SettleInputs :
            Settle(e, o) /\ result'.code = "BAD_REQUEST"
      \/ \E e \in Events, o \in SettleInputs, k \in 0 .. MaxWritten :
            SettleTimeout(e, o, k)
      \/ \E t \in cancelTx : CancelCommit(t) /\ result'.code # "OK"
      \/ \E t \in cancelTx, k \in 0 .. MaxWritten : CancelTimeout(t, k))
       => /\ UNCHANGED dbVars
          /\ \A e \in Events : event'[e].status \in {"OPEN", "LOCKED"}]_vars

\* A settle gave up on the second of two winners: the credit of a payout of 0
\* was refused after the first winner had been paid in the transaction.
AbortChangesNothingWitness ==
  /\ result.op = "settle"
  /\ result.code = "BAD_REQUEST"
  /\ Len(prediction) = 2
  /\ \A i \in 1 .. Len(prediction) :
       prediction[i].status = "PENDING" /\ prediction[i].predictedOutcome = "Home"
  /\ calculatePayout(prediction[1].stakeAmount, prediction[1].originalOdds) > 0
  /\ calculatePayout(prediction[2].stakeAmount, prediction[2].originalOdds) = 0
  /\ \A u \in Users : pointsTransaction[u] = <<>> /\ pointsBalance[u] = 0

\* The days since the last reset of a user's allowance and the top-up due,
\* as the specification states them.
DaysElapsed(u) == now - tokenAllowance[u].lastResetDate

TopUpDue(u) ==
  LET room == IF maxAllowance > tokenAllowance[u].tokensRemaining
                THEN maxAllowance - tokenAllowance[u].tokensRemaining ELSE 0
      grant == DaysElapsed(u) * dailyAllowance
  IN IF grant < room THEN grant ELSE room

AllowanceRows(rows) ==
  Cardinality({k \in DOMAIN rows : rows[k].type = "DAILY_ALLOWANCE"})

GetStatusStep(u) == GetStatus(u)

ConsumeStep(u) ==
  \E a \in ConsumeAmounts, ref \in ConsumeRefs :
    ConsumeTokens(u, a, ref) /\ result'.code = "OK"

\* C25: when at least one UTC day has passed since lastResetDate and the
\* top-up is 0, a call of getStatus or a successful consumeTokens writes no
\* daily-allowance ledger entry and leaves lastResetDate equal to today.
ZeroTopUpMovesDate ==
  [][\A u \in LedgerUsers :
       (/\ DaysElapsed(u) >= 1
        /\ TopUpDue(u) = 0
        /\ GetStatusStep(u) \/ ConsumeStep(u))
         => /\ AllowanceRows(tokenTransaction'[u])
                 = AllowanceRows(tokenTransaction[u])
            /\ tokenAllowance'[u].lastResetDate = now]_vars

\* C26: once a call of getStatus or consumeTokens has completed for a user
\* on a UTC day, a further call for that user on the same day credits
\* nothing as daily allowance.
OneAllowancePerDay ==
  [][\A u \in LedgerUsers :
       (/\ result.op \in {"getStatus", "consumeTokens"}
        /\ result.code = "OK"
        /\ result.userId = u
        /\ result.day = now
        /\ GetStatusStep(u) \/ ConsumeStep(u))
         => AllowanceRows(tokenTransaction'[u])
              = AllowanceRows(tokenTransaction[u])]_vars

ToppedUp(u) == IF DaysElapsed(u) >= 1 /\ TopUpDue(u) > 0 THEN TopUpDue(u) ELSE 0

Replenished(u) ==
  IF ToppedUp(u) > 0 THEN tokenBalance[u] + ToppedUp(u)
  ELSE tokenAllowance[u].tokensRemaining

\* C28: a successful consumeTokens(user, amount, ref) debits the token
\* ledger by exactly amount with a PREDICTION_STAKE entry for ref and sets
\* the allowance counter to max(0, r - amount), r being tokensRemaining
\* after the replenishment; with amount <= 0 it fails and writes nothing.
ConsumeAsStated ==
  [][\A u \in LedgerUsers, a \in ConsumeAmounts, ref \in ConsumeRefs :
       ConsumeTokens(u, a, ref)
         => /\ a <= 0 => result'.code = "BAD_REQUEST" /\ UNCHANGED dbVars
            /\ result'.code = "OK"
                 => /\ tokenBalance'[u] = tokenBalance[u] + ToppedUp(u) - a
                    /\ tokenTransaction'[u][Len(tokenTransaction'[u])] =
                         [userId |-> u, amount |-> -a,
                          type |-> "PREDICTION_STAKE", referenceId |-> ref,
                          balanceAfter |-> tokenBalance'[u]]
                    /\ tokenAllowance'[u].tokensRemaining =
                         (IF Replenished(u) > a THEN Replenished(u) - a ELSE 0)
                    /\ UNCHANGED <<pointsBalance, pointsTransaction>>]_vars

\* A stake was taken from a balance above the allowance counter: the counter
\* stops at 0 while the ledger still holds tokens.
ConsumeAsStatedWitness ==
  \E u \in LedgerUsers :
    /\ result.op = "consumeTokens"
    /\ result.code = "OK"
    /\ tokenAllowance[u].tokensRemaining = 0
    /\ tokenBalance[u] > 0
    /\ tokenTransaction[u][Len(tokenTransaction[u])].type = "PREDICTION_STAKE"

\* C29: the status of an event changes only from OPEN to LOCKED, from LOCKED
\* to SETTLED, and from OPEN or LOCKED to CANCELLED; in particular an event
\* becomes SETTLED only when it was LOCKED.
StatusTransitions ==
  [][\A e \in Events :
       event'[e].status # event[e].status
         => <<event[e].status, event'[e].status>>
              \in {<<"OPEN", "LOCKED">>, <<"LOCKED", "SETTLED">>,
                   <<"OPEN", "CANCELLED">>, <<"LOCKED", "CANCELLED">>}]_vars

\* C30: the final outcome of an event is set exactly when the event is
\* SETTLED, it is then one of the outcome labels of the event, and once set
\* it never changes.
FinalOutcomeIffSettled ==
  /\ [](\A e \in Events :
         /\ event[e].finalOutcome # NULL <=> event[e].status = "SETTLED"
         /\ event[e].finalOutcome # NULL
              => event[e].finalOutcome \in EventOutcomes)
  /\ [][\A e \in Events :
          event[e].finalOutcome # NULL
            => event'[e].finalOutcome = event[e].finalOutcome]_vars

\* C31: settle succeeds for every event that is not terminal and every final
\* outcome among its labels, whatever its PENDING predictions are, and leaves
\* the event SETTLED with none of its predictions PENDING.
SettleSucceeds ==
  [][\A e \in Events, o \in EventOutcomes :
       (Settle(e, o) /\ event[e].status \notin {"SETTLED", "CANCELLED"})
         => /\ result'.code = "OK"
            /\ event'[e].status = "SETTLED"
            /\ PendingPredictions([prediction |-> prediction'], e) = <<>>]_vars

\* C32: when repairBalance completes for a user, the cached token balance
\* of the user equals the sum of the amounts of the user's token ledger
\* entries, however the repair interleaves with credits and debits.
RepairRestoresBalance ==
  [][\A t \in repairRead :
       RepairWrite(t)
         => tokenBalance'[t.userId] = SumAmounts(tokenTransaction'[t.userId])]_vars

Rows(cur, u) == IF cur = "token" THEN tokenTransaction[u] ELSE pointsTransaction[u]

RowsAfter(cur, u) ==
  IF cur = "token" THEN tokenTransaction'[u] ELSE pointsTransaction'[u]

BalanceAfter(cur, u) ==
  IF cur = "token" THEN tokenBalance'[u] ELSE pointsBalance'[u]

\* C33: ledger entries are only ever inserted, never updated or deleted;
\* the balanceAfter of every entry is the owner's cached balance right after
\* the entry was committed, which is the sum of the amounts of the owner's
\* entries in that currency up to and including it.
LedgerAppendOnly ==
  /\ [][\A u \in Users, cur \in {"token", "points"} :
          /\ Len(RowsAfter(cur, u)) >= Len(Rows(cur, u))
          /\ SubSeq(RowsAfter(cur, u), 1, Len(Rows(cur, u))) = Rows(cur, u)
          /\ Len(RowsAfter(cur, u)) > Len(Rows(cur, u))
               => RowsAfter(cur, u)[Len(RowsAfter(cur, u))].balanceAfter
                    = BalanceAfter(cur, u)]_vars
  /\ [](\A u \in Users, cur \in {"token", "points"} :
         \A k \in DOMAIN Rows(cur, u) :
           Rows(cur, u)[k].balanceAfter = SumAmounts(SubSeq(Rows(cur, u), 1, k)))

FlagReleased ==
  /\ [](workerRuns = {} => ~isRunning)
  /\ [][(workerRuns = {} /\ runs' = runs + 1)
          => /\ isRunning'
             /\ \E t \in workerRuns' : t.run = runs + 1]_vars

\* The first run has thrown and the second run is at work.
FlagReleasedWitness ==
  /\ "thrown" \in DOMAIN runResult
  /\ runResult.run = 1
  /\ \E t \in workerRuns : t.run = 2

\* C36: a cashout whose fetched price has a timestamp more than 5 minutes
\* older than the current time, or no valid timestamp, fails with
\* CASHOUT_UNAVAILABLE, credits nothing and leaves the prediction PENDING;
\* a price exactly 5 minutes old is accepted.
StalePriceRejected ==
  [][\A pid \in PredictionIds(DB), u \in Users, p \in CurrentPrices,
        age \in OddsAges :
       (/\ CashoutValue(pid, u, p, age)
        /\ prediction[pid].userId = u
        /\ prediction[pid].status = "PENDING"
        /\ event[prediction[pid].eventId].status \in {"OPEN", "LOCKED"})
         => IF age = NaN \/ age >= 300001
              THEN /\ result'.op = "cashout"
                   /\ result'.code = "CASHOUT_UNAVAILABLE"
                   /\ result'.predictionId = pid
                   /\ cashoutReq' = cashoutReq
                   /\ UNCHANGED dbVars
              ELSE prediction[pid].originalOdds > 0
                     => \E c \in cashoutReq' \ cashoutReq :
                          c.predictionId = pid]_vars

\* A cashout of a PENDING prediction has been refused on a price that was
\* too old, and the prediction is still PENDING with nothing credited.
StalePriceRejectedWitness ==
  /\ result.op = "cashout"
  /\ result.code = "CASHOUT_UNAVAILABLE"
  /\ ~result.committed
  /\ prediction[result.predictionId].status = "PENDING"
  /\ prediction[result.predictionId].userId = result.userId
  /\ event[prediction[result.predictionId].eventId].status = "OPEN"
  /\ prediction[result.predictionId].originalOdds = 820
  /\ pointsTransaction[result.userId] = <<>>

\* C37: a redemption is refunded at most once: whatever the interleaving of
\* the cancel and fulfil calls on it, the points ledger holds at most one
\* REDEMPTION_REFUND credit for it, and none when it ends FULFILLED.
RefundedAtMostOnce ==
  \A id \in DOMAIN redemption :
    /\ Count(pointsTransaction[redemption[id].userId], "REDEMPTION_REFUND", id)
         <= 1
    /\ redemption[id].status = "FULFILLED"
         => Count(pointsTransaction[redemption[id].userId],
                  "REDEMPTION_REFUND", id) = 0

\* C38: the stock counter of a reward with a stock limit never exceeds the
\* limit, however redeem calls interleave, and a redeem whose points debit
\* fails leaves no redemption record and leaves the stock counter, the
\* points balance and the points ledger as they were.
StockWithinLimit ==
  /\ [](\A rw \in Rewards :
         reward[rw].stockLimit # NoStockLimit
           => reward[rw].stockClaimed <= reward[rw].stockLimit)
  /\ [][\A t \in redeemTx :
          (RedeemCommit(t) /\ result'.code = "INSUFFICIENT_BALANCE")
            => /\ redemption' = redemption
               /\ reward' = reward
               /\ UNCHANGED dbVars]_vars

\* The stock is used up, and a redeem of a user short of points has failed
\* while there was stock.
StockWithinLimitWitness ==
  /\ result.op = "redeem"
  /\ result.code = "INSUFFICIENT_BALANCE"
  /\ \E rw \in Rewards :
       reward[rw].stockClaimed = 1 /\ reward[rw].stockLimit = StockLimit
  /\ Len(redemption) = 1
  /\ pointsBalance[redemption[1].userId] = 0

\* C39: autoLockStartedEvents sets to LOCKED exactly the OPEN events whose
\* start time has passed and changes no other event, and reports how many
\* it locked; a second call with no time elapsed finds no OPEN event whose
\* start time has passed, so it changes nothing and reports zero.
AutoLockExact ==
  [][AutoLock =>
       /\ \A e \in DOMAIN event :
            event'[e] =
              IF event[e].status = "OPEN" /\ startsAt[e] <= now
                THEN [status |-> "LOCKED",
                      finalOutcome |-> event[e].finalOutcome]
                ELSE event[e]
       /\ result'.amount =
            Cardinality({e \in DOMAIN event :
                           event[e].status = "OPEN" /\ startsAt[e] <= now})
       /\ now' = now
       /\ \A e \in DOMAIN event :
            ~(event'[e].status = "OPEN" /\ startsAt[e] <= now')]_vars

\* On day 1 the job has locked e1 and e2 together and left e3, which starts
\* on day 2, OPEN.
AutoLockExactWitness ==
  /\ result.op = "autoLock"
  /\ result.amount = 2
  /\ now = 1
  /\ event["e1"].status = "LOCKED"
  /\ event["e2"].status = "LOCKED"
  /\ event["e3"].status = "OPEN"
====
